---------------------------- MODULE Spec2Model ----------------------------
(***************************************************************************)
(* A state-machine model of the circuit execution engine                   *)
(* (backend/app/qiskit_runner.py): run_circuit with its three execution    *)
(* strategies (statevector fast path, statevector branching, sampled       *)
(* qasm/noisy), and the pure helper _probabilities_to_counts.              *)
(*                                                                         *)
(* Numbers.  Amplitudes are exact: a state is a vector of Gaussian         *)
(* integers amp[i] = <<re, im>> with a positive integer d, standing for    *)
(* the complex vector amp / sqrt(d).  Probabilities and branch masses are  *)
(* exact rationals [n, d].  Python's None is the empty sequence <<>> and a *)
(* present optional value v is <<v>>.                                      *)
(***************************************************************************)
EXTENDS Integers, Sequences, FiniteSets, TLC

VARIABLES
    num_qubits,        \* request: number of qubits
    gates,             \* request: the gate list as received
    method,            \* request: "qasm" | "statevector" | "noisy"
    shots,             \* request: number of shots
    max_qubits,        \* environment: STATEVECTOR_MAX_QUBITS as an int
    pc,                \* position of run_circuit
    gates_sorted,      \* run_circuit: gates_sorted
    gi,                \* index (1-based) of the next gate / instruction
    branches,          \* branching: list of [w, st, cl]; sampled: the one shot
    has_measurements,  \* run_circuit: has_measurements
    qc_ops,            \* sampled: the instructions of the built circuit qc
    probabilities,     \* result: bitstring -> probability
    counts,            \* result: bitstring -> count
    per_qubit,         \* result: per_qubit_probabilities (statevector method)
    statevector,       \* result: <<>> (None) or <<state>>
    warnings,          \* result: <<>> (None) or <<list>>
    error,             \* <<>> or <<[kind, arg]>> : the exception raised
    path,              \* the strategy taken: "none" | "fast" | "branching" | "sampled"
    prev_branches,     \* observer: the branch list before the last per-gate step
    cin,               \* a helper called on its own: its argument(s)
    cout               \* a helper called on its own: <<result>>, or <<>> before the call

vars == <<num_qubits, gates, method, shots, max_qubits, pc, gates_sorted, gi, branches,
          has_measurements, qc_ops, probabilities, counts, per_qubit, statevector,
          warnings, error, path, prev_branches, cin, cout>>

-----------------------------------------------------------------------------
(* Bounds of the model *)

MaxGates == 3       \* longest gate list of a request
MaxQubits == 2      \* largest num_qubits of a request
ReqShots == 4       \* shots of a run_circuit request
MaxShots == 5       \* largest shots given to _probabilities_to_counts
MaxWeight == 3      \* largest (unnormalised) probability weight of one outcome
MaxKeys == 3        \* most outcomes in a distribution given to _probabilities_to_counts

-----------------------------------------------------------------------------
(* Python values *)

None == <<>>
Some(v) == <<v>>
IsNone(o) == o = <<>>
Val(o) == o[1]

\* `a or b` on optional integers: a when a is truthy (present and non-zero)
PyOrInt(a, b) == IF (~IsNone(a)) /\ Val(a) # 0 THEN a ELSE b

\* _as_int(value, default) for an optional integer
as_int(value, default) == IF IsNone(value) THEN default ELSE value

Range(s) == {s[i] : i \in DOMAIN s}

RECURSIVE SumSeq(_)
SumSeq(s) == IF s = <<>> THEN 0 ELSE Head(s) + SumSeq(Tail(s))

RECURSIVE SumFun(_, _)
SumFun(f, S) ==
    IF S = {} THEN 0
    ELSE LET x == CHOOSE y \in S : TRUE IN f[x] + SumFun(f, S \ {x})

-----------------------------------------------------------------------------
(* Exact rationals [n |-> numerator, d |-> denominator > 0] *)

RECURSIVE Gcd(_, _)
Gcd(a, b) == IF b = 0 THEN a ELSE Gcd(b, a % b)

Abs(x) == IF x < 0 THEN -x ELSE x

Rat(n, d) ==
    LET g == Gcd(Abs(n), d) IN
    IF n = 0 THEN [n |-> 0, d |-> 1] ELSE [n |-> n \div g, d |-> d \div g]

RZero == [n |-> 0, d |-> 1]
ROne == [n |-> 1, d |-> 1]
RAdd(a, b) == Rat(a.n * b.d + b.n * a.d, a.d * b.d)
RMul(a, b) == Rat(a.n * b.n, a.d * b.d)
RDiv(a, b) == Rat(a.n * b.d, a.d * b.n)        \* b > 0
RLe(a, b) == a.n * b.d <= b.n * a.d
RLt(a, b) == a.n * b.d < b.n * a.d
RPos(a) == a.n > 0

RECURSIVE RSumSeq(_)
RSumSeq(s) == IF s = <<>> THEN RZero ELSE RAdd(Head(s), RSumSeq(Tail(s)))

RECURSIVE RSumFun(_, _)
RSumFun(f, S) ==
    IF S = {} THEN RZero
    ELSE LET x == CHOOSE y \in S : TRUE IN RAdd(f[x], RSumFun(f, S \ {x}))

-----------------------------------------------------------------------------
(* Bitstrings: format(i, "0{n}b") as the sequence of its characters *)

Bit(i, q) == (i \div (2 ^ q)) % 2              \* (i >> q) & 1

Dim(n) == 2 ^ n

\* format(i, f"0{n}b"): most significant bit first, zero padded to n
Format(i, n) == [k \in 1..n |-> IF Bit(i, n - k) = 1 THEN "1" ELSE "0"]

RECURSIVE BitsValue(_)
BitsValue(s) ==
    IF s = <<>> THEN 0
    ELSE 2 * BitsValue(SubSeq(s, 1, Len(s) - 1)) + (IF s[Len(s)] = "1" THEN 1 ELSE 0)

-----------------------------------------------------------------------------
(* _probabilities_to_counts (largest remainder method) *)

\* order of two dictionary keys (bitstrings of one width) as Python orders str
KeyLt(j, k) == BitsValue(j) < BitsValue(k)

\* int(x) for a rational x >= 0
IntOf(x) == x.n \div x.d

\* InFirst with the slice one entry too long ([:remainder + 1])
InFirst_OneTooMany(frac, k, remainder) ==
    LET before == {j \in DOMAIN frac :
                     \/ RLt(frac[k], frac[j])
                     \/ (frac[j] = frac[k] /\ KeyLt(k, j))}
    IN Cardinality(before) <= remainder

\* the position test of `sorted(((frac, k) ...), reverse=True)[:remainder]`:
\* k is among the first `remainder` entries of the descending order
InFirst(frac, k, remainder) ==
    LET before == {j \in DOMAIN frac :
                     \/ RLt(frac[k], frac[j])
                     \/ (frac[j] = frac[k] /\ KeyLt(k, j))}
    IN Cardinality(before) < remainder

\* DistributeRemainder handing the remainder to the first keys instead of the
\* largest fractions
DistributeRemainder_ToFirstKeys(floored, raw, remainder) ==
    IF remainder > 0
    THEN [k \in DOMAIN floored |->
            IF Cardinality({j \in DOMAIN floored : KeyLt(j, k)}) < remainder
            THEN floored[k] + 1 ELSE floored[k]]
    ELSE floored

\* the largest-remainder pass: floored, with the remainder handed out
DistributeRemainder(floored, raw, remainder) ==
    IF remainder > 0
    THEN LET frac == [k \in DOMAIN raw |-> RAdd(raw[k], Rat(-floored[k], 1))]
         IN [k \in DOMAIN floored |->
                IF InFirst(frac, k, remainder) THEN floored[k] + 1 ELSE floored[k]]
    ELSE floored

DropZeros(f) == [k \in {j \in DOMAIN f : f[j] > 0} |-> f[k]]

probabilities_to_counts(probs_in, nshots) ==
    IF nshots <= 0 THEN [k \in DOMAIN probs_in |-> 0]
    ELSE
    LET total_p == RSumFun(probs_in, DOMAIN probs_in) IN
    IF ~RPos(total_p) THEN [k \in {} |-> 0]
    ELSE
    LET probs == [k \in DOMAIN probs_in |->
                    IF RPos(probs_in[k]) THEN RDiv(probs_in[k], total_p) ELSE RZero]
        raw == [k \in DOMAIN probs |-> RMul(probs[k], Rat(nshots, 1))]
        floored == [k \in DOMAIN raw |-> IntOf(raw[k])]
        remainder == nshots - SumFun(floored, DOMAIN floored)
    IN DropZeros(DistributeRemainder(floored, raw, remainder))

-----------------------------------------------------------------------------
(* _per_qubit_probabilities *)

\* bits.zfill(n)
Zfill(bits, n) ==
    IF Len(bits) >= n THEN bits
    ELSE [k \in 1..n |-> IF k <= n - Len(bits) THEN "0" ELSE bits[k - (n - Len(bits))]]

CharOfQubit_FromLeft(bits, i) == bits[1 + i]

\* bits[-1 - i]
CharOfQubit(bits, i) == bits[Len(bits) - i]

\* the sum of count / total over the bitstrings whose character for qubit i is bit
ShareOf(cnts, n, total, i, bit) ==
    RSumFun([key \in DOMAIN cnts |-> Rat(cnts[key], total)],
            {key \in DOMAIN cnts : CharOfQubit(Zfill(key, n), i) = bit})

PerQubit(cnts, n, total) ==
    IF total <= 0 THEN <<>>
    ELSE [i \in 0..(n - 1) |-> [bit \in {"0", "1"} |-> ShareOf(cnts, n, total, i, bit)]]

per_qubit_probabilities(cnts, n) == PerQubit(cnts, n, SumFun(cnts, DOMAIN cnts))

-----------------------------------------------------------------------------
(* State vectors: [amp |-> [0..2^n-1 -> <<re, im>>], d |-> Nat \ {0}] for amp/sqrt(d) *)

CAdd(a, b) == <<a[1] + b[1], a[2] + b[2]>>
CSub(a, b) == <<a[1] - b[1], a[2] - b[2]>>
CNeg(a) == <<-a[1], -a[2]>>
CMulI(a) == <<-a[2], a[1]>>                \* i * a
CZero == <<0, 0>>
Norm2(a) == a[1] * a[1] + a[2] * a[2]      \* amp.real^2 + amp.imag^2

\* Statevector.from_label("0" * n)
ZeroState(n) == [amp |-> [i \in 0..(Dim(n) - 1) |-> IF i = 0 THEN <<1, 0>> ELSE CZero],
                 d |-> 1]

Flip(i, q) == IF Bit(i, q) = 0 THEN i + 2 ^ q ELSE i - 2 ^ q

\* index i with the bits of qubits a and b exchanged
SwapBits(i, a, b) == IF Bit(i, a) = Bit(i, b) THEN i ELSE Flip(Flip(i, a), b)

\* the probability of basis state i
ProbOf(st, i) == Rat(Norm2(st.amp[i]), st.d)

\* one instruction of a circuit acting on a state (Statevector.evolve)
EvolveOp(st, op) ==
    LET a == st.amp
        q == op.qs[1]
        D == DOMAIN a
    IN CASE op.name = "h" ->
              [amp |-> [i \in D |-> IF Bit(i, q) = 0 THEN CAdd(a[i], a[Flip(i, q)])
                                    ELSE CSub(a[Flip(i, q)], a[i])],
               d |-> 2 * st.d]
         [] op.name = "x" -> [st EXCEPT !.amp = [i \in D |-> a[Flip(i, q)]]]
         [] op.name = "y" ->
              [st EXCEPT !.amp = [i \in D |-> IF Bit(i, q) = 0
                                              THEN CNeg(CMulI(a[Flip(i, q)]))
                                              ELSE CMulI(a[Flip(i, q)])]]
         [] op.name = "z" ->
              [st EXCEPT !.amp = [i \in D |-> IF Bit(i, q) = 1 THEN CNeg(a[i]) ELSE a[i]]]
         [] op.name = "s" ->
              [st EXCEPT !.amp = [i \in D |-> IF Bit(i, q) = 1 THEN CMulI(a[i]) ELSE a[i]]]
         [] op.name = "sdg" ->
              [st EXCEPT !.amp = [i \in D |-> IF Bit(i, q) = 1 THEN CNeg(CMulI(a[i]))
                                              ELSE a[i]]]
         [] op.name = "cx" ->
              [st EXCEPT !.amp = [i \in D |-> IF Bit(i, q) = 1 THEN a[Flip(i, op.qs[2])]
                                              ELSE a[i]]]
         [] op.name = "cz" ->
              [st EXCEPT !.amp = [i \in D |-> IF Bit(i, q) = 1 /\ Bit(i, op.qs[2]) = 1
                                              THEN CNeg(a[i]) ELSE a[i]]]
         [] op.name = "swap" ->
              [st EXCEPT !.amp = [i \in D |-> a[SwapBits(i, q, op.qs[2])]]]
         [] op.name = "ccx" ->
              [st EXCEPT !.amp = [i \in D |-> IF Bit(i, q) = 1 /\ Bit(i, op.qs[2]) = 1
                                              THEN a[Flip(i, op.qs[3])] ELSE a[i]]]

RECURSIVE Evolve(_, _)
Evolve(st, ops) == IF ops = <<>> THEN st ELSE Evolve(EvolveOp(st, Head(ops)), Tail(ops))

\* _measurement_probabilities: <<p0, p1>>
measurement_probabilities(st, target) ==
    LET D == DOMAIN st.amp
        n2 == [i \in D |-> Norm2(st.amp[i])]
        s1 == SumFun(n2, {i \in D : Bit(i, target) = 1})
        s0 == SumFun(n2, {i \in D : Bit(i, target) # 1})
    IN <<Rat(s0, st.d), Rat(s1, st.d)>>

\* _collapse_statevector without the division by the norm
collapse_statevector_unnormalised(st, target, outcome) ==
    [st EXCEPT !.amp = [i \in DOMAIN st.amp |->
                          IF Bit(i, target) # outcome THEN CZero ELSE st.amp[i]]]

\* _collapse_statevector: zero the amplitudes that disagree, divide by the norm
collapse_statevector(st, target, outcome) ==
    LET D == DOMAIN st.amp
        data == [i \in D |-> IF Bit(i, target) # outcome THEN CZero ELSE st.amp[i]]
        norm2 == SumFun([i \in D |-> Norm2(data[i])], D)
    IN IF norm2 > 0 THEN [amp |-> data, d |-> norm2] ELSE [amp |-> data, d |-> st.d]

-----------------------------------------------------------------------------
(* Gates, conditions and the circuit builder                                *)
(*                                                                         *)
(* A gate is [type, qubit, targets, controls, position, params] with       *)
(* params = [basis, cbit, classical_bit, reset_after, condition]; optional *)
(* fields are None or Some(v).  A condition is [kind, bits, value]:        *)
(*   kind "none" : no condition / c_if key;                                *)
(*   kind "int"  : a bare integer, value = Some(v);                        *)
(*   kind "dict" : a (non-empty) dict, bits = None or Some(list),          *)
(*                 value = None or Some(v).                                *)
(***************************************************************************)

NoCondition == [kind |-> "none", bits |-> None, value |-> None]
CondInt(v) == [kind |-> "int", bits |-> None, value |-> Some(v)]
CondReg(v) == [kind |-> "dict", bits |-> None, value |-> Some(v)]
CondBits(bs, v) == [kind |-> "dict", bits |-> Some(bs), value |-> Some(v)]

\* Python truthiness of a condition: bool(condition)
Truthy(condition) ==
    \/ condition.kind = "dict"
    \/ (condition.kind = "int" /\ Val(condition.value) # 0)

\* _condition_from_params
condition_from_params(params) == params.condition

\* _gate_has_condition
gate_has_condition(gate) == Truthy(condition_from_params(gate.params))

\* value of the condition after `value = condition.get("value")` / `value = condition`
ConditionValue(condition) == condition.value

NoError == None
Err(kind, arg) == Some([kind |-> kind, arg |-> arg])

\* the classical register read as an integer, bit idx weighing 2^idx
RegValue(classical_bits) ==
    SumSeq([idx \in DOMAIN classical_bits |->
              IF classical_bits[idx] # 0 THEN 2 ^ (idx - 1) ELSE 0])

\* the listed bits packed LSB-first in list order (all indices in range)
PackBits(bits, classical_bits) ==
    SumSeq([idx \in DOMAIN bits |->
              IF classical_bits[bits[idx] + 1] # 0 THEN 2 ^ (idx - 1) ELSE 0])

BitsInRange(bits, nbits) == \A idx \in DOMAIN bits : bits[idx] >= 0 /\ bits[idx] < nbits

\* _condition_is_met: [err, met]
condition_is_met(condition, classical_bits) ==
    IF ~Truthy(condition) THEN [err |-> NoError, met |-> TRUE]
    ELSE IF IsNone(ConditionValue(condition)) THEN [err |-> NoError, met |-> TRUE]
    ELSE LET value_int == Val(ConditionValue(condition)) IN
         IF IsNone(condition.bits)
         THEN [err |-> NoError, met |-> RegValue(classical_bits) = value_int]
         ELSE LET bits == Val(condition.bits) IN
              IF Len(bits) = 0 THEN [err |-> NoError, met |-> FALSE]
              ELSE IF ~BitsInRange(bits, Len(classical_bits))
                   THEN [err |-> Err("ValueError", "Conditional gate bit index out of range"),
                         met |-> FALSE]
                   ELSE [err |-> NoError,
                         met |-> PackBits(bits, classical_bits) = value_int]

\* The classical guard an instruction carries after c_if:
\*   [on |-> "none"], [on |-> "reg", value] (cregs[0] == value),
\*   [on |-> "bit", bit, value] (clbit == bool(value))
GuardNone == [on |-> "none", bit |-> 0, value |-> 0]
GuardReg(v) == [on |-> "reg", bit |-> 0, value |-> v]
GuardBit(b, v) == [on |-> "bit", bit |-> b, value |-> v]

\* _apply_condition on a circuit with num_clbits classical bits: [err, guard]
apply_condition(condition, num_clbits) ==
    IF ~Truthy(condition) THEN [err |-> NoError, guard |-> GuardNone]
    ELSE IF IsNone(ConditionValue(condition)) THEN [err |-> NoError, guard |-> GuardNone]
    ELSE LET value == Val(ConditionValue(condition))
             whole == IF num_clbits = 0
                      THEN [err |-> Err("ValueError", "Conditional gate requires a classical register"),
                            guard |-> GuardNone]
                      ELSE [err |-> NoError, guard |-> GuardReg(value)]
         IN IF IsNone(condition.bits) THEN whole
            ELSE LET bits == Val(condition.bits) IN
                 IF Len(bits) = 1
                 THEN IF bits[1] < 0 \/ bits[1] >= num_clbits
                      THEN [err |-> Err("ValueError", "Conditional gate bit index out of range"),
                            guard |-> GuardNone]
                      ELSE [err |-> NoError, guard |-> GuardBit(bits[1], value)]
                 ELSE whole

\* _strip_condition_params
strip_condition_params(params) == [params EXCEPT !.condition = NoCondition]

\* _normalize_basis: None -> "z"
normalize_basis(basis) == IF IsNone(basis) THEN "z" ELSE Val(basis)

\* An instruction of a circuit: [name, qs, cbit, guard]
Op(name, qs) == [name |-> name, qs |-> qs, cbit |-> 0, guard |-> GuardNone]
MeasureOp(q, c) == [name |-> "measure", qs |-> <<q>>, cbit |-> c, guard |-> GuardNone]

\* The circuit's own check of qubit arguments (QuantumCircuit.h, .cx, ...):
\* every argument an index of the circuit, no argument twice
QubitArgsOk(qargs, n) ==
    /\ \A k \in DOMAIN qargs : (~IsNone(qargs[k])) /\ Val(qargs[k]) \in 0..(n - 1)
    /\ \A j, k \in DOMAIN qargs : j # k => qargs[j] # qargs[k]

Built(ops) == [err |-> NoError, ops |-> ops]
Raised(e) == [err |-> e, ops |-> <<>>]

\* inst = qc.<name>(*qargs); _apply_condition(inst, qc, gate)
Instruction(name, qargs, gate, n, num_clbits) ==
    IF ~QubitArgsOk(qargs, n) THEN Raised(Err("CircuitError", "qubit index"))
    ELSE LET c == apply_condition(gate.params.condition, num_clbits) IN
         IF ~IsNone(c.err) THEN Raised(c.err)
         ELSE Built(<<[Op(name, [k \in DOMAIN qargs |-> Val(qargs[k])])
                          EXCEPT !.guard = c.guard]>>)

\* a Y-basis rotation with S where the code has S-dagger
apply_basis_rotation_SForY(basis, qubit, n) ==
    IF basis = "z" THEN Built(<<>>)
    ELSE IF basis = "x"
         THEN IF qubit \in 0..(n - 1) THEN Built(<<Op("h", <<qubit>>)>>)
              ELSE Raised(Err("CircuitError", "qubit index"))
    ELSE IF basis = "y"
         THEN IF qubit \in 0..(n - 1) THEN Built(<<Op("s", <<qubit>>), Op("h", <<qubit>>)>>)
              ELSE Raised(Err("CircuitError", "qubit index"))
    ELSE Raised(Err("ValueError", "Unsupported measurement basis"))

\* _apply_basis_rotation on a circuit of n qubits
apply_basis_rotation(basis, qubit, n) ==
    IF basis = "z" THEN Built(<<>>)
    ELSE IF basis = "x"
         THEN IF qubit \in 0..(n - 1) THEN Built(<<Op("h", <<qubit>>)>>)
              ELSE Raised(Err("CircuitError", "qubit index"))
    ELSE IF basis = "y"
         THEN IF qubit \in 0..(n - 1) THEN Built(<<Op("sdg", <<qubit>>), Op("h", <<qubit>>)>>)
              ELSE Raised(Err("CircuitError", "qubit index"))
    ELSE Raised(Err("ValueError", "Unsupported measurement basis"))

FirstOrNone(s) == IF Len(s) > 0 THEN Some(s[1]) ELSE None

SingleQubitTypes == {"h", "x", "y", "z", "s", "t", "rx", "ry", "rz"}

\* the `measure` case of _apply_gate
ApplyMeasure(gate, n, num_clbits) ==
    LET target == IF ~IsNone(gate.qubit) THEN gate.qubit ELSE FirstOrNone(gate.targets) IN
    IF IsNone(target) THEN Raised(Err("ValueError", "Measure requires 'qubit' or targets[0]"))
    ELSE
    LET basis == normalize_basis(gate.params.basis)
        cbit == Val(as_int(PyOrInt(gate.params.cbit, gate.params.classical_bit), target))
        rot == apply_basis_rotation(basis, Val(target), n)
    IN IF cbit < 0 \/ cbit >= num_clbits
       THEN Raised(Err("ValueError", "Measure requires a valid classical bit index"))
       ELSE IF ~IsNone(rot.err) THEN rot
       ELSE IF Val(target) \notin 0..(n - 1) THEN Raised(Err("CircuitError", "qubit index"))
       ELSE Built(rot.ops \o <<MeasureOp(Val(target), cbit)>>
                  \o (IF gate.params.reset_after THEN <<Op("reset", <<Val(target)>>)>>
                      ELSE <<>>))

\* _apply_gate(qc, gate) for a circuit qc of n qubits and num_clbits classical
\* bits: the exception raised, or the instructions appended to qc
apply_gate(gate, n, num_clbits) ==
    LET gtype == gate.type
        qubit == gate.qubit
        targets == gate.targets
        controls == gate.controls
    IN
    IF gtype \in SingleQubitTypes THEN Instruction(gtype, <<qubit>>, gate, n, num_clbits)
    ELSE IF gtype = "p" THEN
        IF Len(controls) > 0
        THEN LET target == IF ~IsNone(qubit) THEN qubit ELSE FirstOrNone(targets) IN
             IF IsNone(target)
             THEN Raised(Err("ValueError", "Controlled-P requires a target (qubit or targets[0])"))
             ELSE IF Len(controls) = 1
                  THEN Instruction("cp", <<Some(controls[1]), target>>, gate, n, num_clbits)
                  ELSE Instruction("mcp", [k \in 1..(Len(controls) + 1) |->
                                              IF k <= Len(controls) THEN Some(controls[k])
                                              ELSE target],
                                   gate, n, num_clbits)
        ELSE Instruction("p", <<qubit>>, gate, n, num_clbits)
    ELSE IF gtype = "cp" THEN
        LET control == IF Len(controls) > 0 THEN Some(controls[1]) ELSE qubit
            target == FirstOrNone(targets)
        IN IF IsNone(control) \/ IsNone(target)
           THEN Raised(Err("ValueError", "CP requires control (qubit/controls[0]) and targets[0]"))
           ELSE Instruction("cp", <<control, target>>, gate, n, num_clbits)
    ELSE IF gtype \in {"cnot", "cx", "cz"} THEN
        LET control == IF ~IsNone(qubit) THEN qubit ELSE FirstOrNone(controls)
            target == FirstOrNone(targets)
        IN IF IsNone(control) \/ IsNone(target)
           THEN Raised(Err("ValueError", "requires control and target"))
           ELSE Instruction(IF gtype = "cz" THEN "cz" ELSE "cx", <<control, target>>,
                            gate, n, num_clbits)
    ELSE IF gtype = "swap" THEN
        LET q1 == IF ~IsNone(qubit) THEN qubit ELSE FirstOrNone(targets)
            q2 == IF ~IsNone(qubit)
                  THEN (IF Len(targets) > 0 THEN Some(targets[1]) ELSE FirstOrNone(controls))
                  ELSE (IF Len(targets) > 1 THEN Some(targets[2]) ELSE FirstOrNone(controls))
        IN IF IsNone(q1) \/ IsNone(q2)
           THEN Raised(Err("ValueError", "SWAP requires two qubits"))
           ELSE Instruction("swap", <<q1, q2>>, gate, n, num_clbits)
    ELSE IF gtype \in {"toffoli", "ccx"} THEN
        IF Len(controls) < 2 \/ Len(targets) < 1
        THEN Raised(Err("ValueError", "Toffoli requires controls[0], controls[1], targets[0]"))
        ELSE Instruction("ccx", <<Some(controls[1]), Some(controls[2]), Some(targets[1])>>,
                         gate, n, num_clbits)
    ELSE IF gtype = "measure" THEN ApplyMeasure(gate, n, num_clbits)
    ELSE Raised(Err("Unsupported gate type", gtype))

-----------------------------------------------------------------------------
(* run_circuit: ordering and the choice of the statevector strategy *)

IsMeasure(g) == g.type = "measure"

\* sort_key: the position when it is an int, else 0
sort_key(g) == IF IsNone(g.position) THEN 0 ELSE Val(g.position)

\* g inserted behind every element whose key is not larger (keeps list order on ties)
RECURSIVE InsertByKey(_, _)
InsertByKey(sorted, g) ==
    IF sorted = <<>> THEN <<g>>
    ELSE IF sort_key(Head(sorted)) <= sort_key(g)
         THEN <<Head(sorted)>> \o InsertByKey(Tail(sorted), g)
         ELSE <<g>> \o sorted

RECURSIVE SortFrom(_, _)
SortFrom(done, rest) ==
    IF rest = <<>> THEN done ELSE SortFrom(InsertByKey(done, Head(rest)), Tail(rest))

\* gates_sorted = sorted(gates, key=sort_key)
SortGates(gs) == SortFrom(<<>>, gs)

MeasureGates(gs) == SelectSeq(gs, IsMeasure)
NotMeasure(g) == ~IsMeasure(g)
NonMeasureGates(gs) == SelectSeq(gs, NotMeasure)

\* has_conditions = any(_gate_has_condition(g) for g in gates_sorted)
HasConditions(gs) == \E k \in DOMAIN gs : gate_has_condition(gs[k])

MaxOf(S, default) == IF S = {} THEN default ELSE CHOOSE x \in S : \A y \in S : y <= x

\* last_non_measure_pos: the largest int position of a non-measurement gate, default -1
LastNonMeasurePos(gs) ==
    MaxOf({Val(gs[k].position) : k \in {j \in DOMAIN gs :
                                          NotMeasure(gs[j]) /\ ~IsNone(gs[j].position)}}, -1)

\* mid_circuit_measurement as run_circuit computes it
MidCircuitMeasurement(gs) ==
    LET last_non_measure_pos == LastNonMeasurePos(gs) IN
    /\ MeasureGates(gs) # <<>>
    /\ last_non_measure_pos >= 0
    /\ \E k \in DOMAIN gs :
          /\ IsMeasure(gs[k])
          /\ (IsNone(gs[k].position) \/ Val(gs[k].position) < last_non_measure_pos)

\* the statevector strategy: the fast path when this holds, else branching
UseFastPath(gs) == (~MidCircuitMeasurement(gs)) /\ ~HasConditions(gs)

-----------------------------------------------------------------------------
(* Statevector helpers of the two exact strategies *)

\* the measured qubit of a measurement gate: gate.qubit, else targets[0], else None
MeasureTarget(g) == IF ~IsNone(g.qubit) THEN g.qubit ELSE FirstOrNone(g.targets)

TargetAndCbit(target, cbit, num_clbits) ==
    IF cbit < 0 \/ cbit >= num_clbits
    THEN [err |-> Err("ValueError", "Measure requires a valid classical bit index"),
          target |-> 0, cbit |-> 0]
    ELSE [err |-> NoError, target |-> target, cbit |-> cbit]

\* _measurement_target_and_cbit: [err, target, cbit]
measurement_target_and_cbit(gate, num_clbits) ==
    IF IsNone(MeasureTarget(gate))
    THEN [err |-> Err("ValueError", "Measure requires 'qubit' or targets[0]"),
          target |-> 0, cbit |-> 0]
    ELSE TargetAndCbit(Val(MeasureTarget(gate)),
                       Val(as_int(PyOrInt(gate.params.cbit, gate.params.classical_bit),
                                  MeasureTarget(gate))),
                       num_clbits)

\* [err, st]: a state, or the exception raised on the way to it
StateOk(st) == [err |-> NoError, st |-> st]
StateErr(e, st) == [err |-> e, st |-> st]

\* statevector.evolve(qc_tmp) once qc_tmp is built
EvolveBuilt(st, qc_tmp) ==
    IF ~IsNone(qc_tmp.err) THEN StateErr(qc_tmp.err, st) ELSE StateOk(Evolve(st, qc_tmp.ops))

\* _apply_gate_unitary: the gate without its condition on a fresh circuit, evolved
apply_gate_unitary(st, gate, n) ==
    EvolveBuilt(st, apply_gate([gate EXCEPT !.params = strip_condition_params(gate.params)],
                               n, 0))

\* _apply_basis_rotation_statevector
apply_basis_rotation_statevector(st, basis, qubit, n) ==
    EvolveBuilt(st, apply_basis_rotation(basis, qubit, n))

\* _apply_reset_statevector: an X on the target
apply_reset_statevector(st, target, n) == Evolve(st, <<Op("x", <<target>>)>>)

Branch(w, st, cl) == [w |-> w, st |-> st, cl |-> cl]

\* [err, out]: the branches a step puts in place of one branch, or the exception
Out(bs) == [err |-> NoError, out |-> bs]
Fail(e) == [err |-> e, out |-> <<>>]

\* Child without the `if prob <= 0: continue` of line 653
Child_KeepZero(b, rotated, prob, outcome, reset_after, target, cbit, n) ==
    <<Branch(RMul(b.w, prob), rotated, [b.cl EXCEPT ![cbit + 1] = outcome])>>

\* lines 652-660: the child of one outcome, none when its probability is 0
Child(b, rotated, prob, outcome, reset_after, target, cbit, n) ==
    IF ~RPos(prob) THEN <<>>
    ELSE <<Branch(RMul(b.w, prob),
                  IF reset_after /\ outcome = 1
                  THEN apply_reset_statevector(collapse_statevector(rotated, target, outcome),
                                               target, n)
                  ELSE collapse_statevector(rotated, target, outcome),
                  [b.cl EXCEPT ![cbit + 1] = outcome])>>

Children(b, rotated, p, reset_after, target, cbit, n) ==
    Child(b, rotated, p[1], 0, reset_after, target, cbit, n)
    \o Child(b, rotated, p[2], 1, reset_after, target, cbit, n)

AfterRotation(b, rot, reset_after, target, cbit, n) ==
    IF ~IsNone(rot.err) THEN Fail(rot.err)
    ELSE IF target < 0 THEN Fail(Err("ValueError", "negative shift count"))
    ELSE Out(Children(b, rot.st, measurement_probabilities(rot.st, target),
                      reset_after, target, cbit, n))

\* the children of one branch at a measurement (lines 647-660)
MeasureBranch(b, basis, reset_after, target, cbit, n) ==
    IF ~RPos(b.w) THEN Out(<<>>)
    ELSE AfterRotation(b, apply_basis_rotation_statevector(b.st, basis, target, n),
                       reset_after, target, cbit, n)

AfterUnitary(b, u) == IF ~IsNone(u.err) THEN Fail(u.err) ELSE Out(<<Branch(b.w, u.st, b.cl)>>)

AfterCondition(b, gate, condition, m, n) ==
    IF Truthy(condition) /\ ~IsNone(m.err) THEN Fail(m.err)
    ELSE IF Truthy(condition) /\ ~m.met THEN Out(<<b>>)
    ELSE AfterUnitary(b, apply_gate_unitary(b.st, gate, n))

\* one branch at a non-measurement gate (lines 665-670)
GateBranch(b, gate, n) ==
    AfterCondition(b, gate, condition_from_params(gate.params),
                   condition_is_met(condition_from_params(gate.params), b.cl), n)

\* r, then rest unless r raised
AndThen(r, rest) ==
    IF ~IsNone(r.err) THEN r
    ELSE IF ~IsNone(rest.err) THEN rest
    ELSE Out(r.out \o rest.out)

\* a per-branch step run over the branch list in order; the first exception wins
RECURSIVE OverBranches(_, _, _, _, _, _, _)
OverBranches(bs, gate, basis, reset_after, target, cbit, n) ==
    IF bs = <<>> THEN Out(<<>>)
    ELSE AndThen(IF IsMeasure(gate)
                 THEN MeasureBranch(Head(bs), basis, reset_after, target, cbit, n)
                 ELSE GateBranch(Head(bs), gate, n),
                 OverBranches(Tail(bs), gate, basis, reset_after, target, cbit, n))

MeasureOver(bs, gate, tc, n) ==
    IF ~IsNone(tc.err) THEN Fail(tc.err)
    ELSE OverBranches(bs, gate, normalize_basis(gate.params.basis),
                      gate.params.reset_after, tc.target, tc.cbit, n)

\* one iteration of `for gate in gates_sorted` (lines 637-671): [err, out]
BranchingGate(bs, gate, n) ==
    IF IsMeasure(gate)
    THEN MeasureOver(bs, gate, measurement_target_and_cbit(gate, n), n)
    ELSE OverBranches(bs, gate, "z", FALSE, 0, 0, n)

\* lines 673-687: the outcome distribution of the live branches
BranchProbabilities(bs, n) ==
    LET contrib(k, i) == IF RPos(bs[k].w) THEN RMul(bs[k].w, ProbOf(bs[k].st, i)) ELSE RZero
        total(i) == RSumSeq([k \in DOMAIN bs |-> contrib(k, i)])
        keys == {i \in 0..(Dim(n) - 1) : RPos(total(i))}
        raw == [key \in {Format(i, n) : i \in keys} |-> total(BitsValue(key))]
        total_prob == RSumFun(raw, DOMAIN raw)
    IN IF RPos(total_prob) /\ total_prob # ROne
       THEN [key \in DOMAIN raw |-> RDiv(raw[key], total_prob)]
       ELSE raw

\* r, then rest unless r raised (circuits)
OpsThen(r, rest) ==
    IF ~IsNone(r.err) THEN r
    ELSE IF ~IsNone(rest.err) THEN rest
    ELSE Built(r.ops \o rest.ops)

\* `for g in gs: _apply_gate(qc, g)`: [err, ops]
RECURSIVE BuildAll(_, _, _)
BuildAll(gs, n, num_clbits) ==
    IF gs = <<>> THEN Built(<<>>)
    ELSE OpsThen(apply_gate(Head(gs), n, num_clbits), BuildAll(Tail(gs), n, num_clbits))

\* lines 591-601: a trailing measurement adds its basis rotation only
TrailingRotation(g, n) ==
    IF IsNone(MeasureTarget(g)) THEN Built(<<>>)
    ELSE apply_basis_rotation(normalize_basis(g.params.basis), Val(MeasureTarget(g)), n)

RECURSIVE TrailingRotations(_, _)
TrailingRotations(ms, n) ==
    IF ms = <<>> THEN Built(<<>>)
    ELSE OpsThen(TrailingRotation(Head(ms), n), TrailingRotations(Tail(ms), n))

\* lines 587-601: the fast path's circuit qc_sv: [err, ops]
FastPathCircuit(gs, n) ==
    OpsThen(BuildAll(NonMeasureGates(gs), n, 0), TrailingRotations(MeasureGates(gs), n))

\* lines 613-620: every bitstring, with its probability (zeros included)
StateProbabilities(st, n) ==
    [key \in {Format(i, n) : i \in 0..(Dim(n) - 1)} |-> ProbOf(st, BitsValue(key))]

-----------------------------------------------------------------------------
(* Sampled execution (qasm, noisy): the circuit qc and one shot of it.     *)
(* The model follows one shot: branches holds the shot's single state,     *)
(* each measurement takes one of its possible outcomes.  The noisy         *)
(* method's depolarizing errors are left out: the shots modelled are its   *)
(* error-free shots.                                                       *)

\* qc.measure(range(n), range(n))
MeasureAll(n) == [k \in 1..n |-> MeasureOp(k - 1, k - 1)]

\* the implicit measurement appended whatever the gate list holds
ImplicitMeasure_Always(gs, n) == Built(MeasureAll(n))

ImplicitMeasure(gs, n) ==
    IF \E k \in DOMAIN gs : gs[k].type = "measure" THEN Built(<<>>) ELSE Built(MeasureAll(n))

\* lines 734-742: the circuit of the shot-based methods: [err, ops]
SampledCircuit(gs, n) == OpsThen(BuildAll(gs, n, n), ImplicitMeasure(gs, n))

\* whether an instruction's classical guard lets it run in a shot
GuardMet(guard, cl) ==
    CASE guard.on = "none" -> TRUE
      [] guard.on = "reg" -> RegValue(cl) = guard.value
      [] guard.on = "bit" -> cl[guard.bit + 1] = (IF guard.value # 0 THEN 1 ELSE 0)

\* the shots an instruction can lead to from the shot b
ShotSuccessors(b, op) ==
    IF ~GuardMet(op.guard, b.cl) THEN {b}
    ELSE IF op.name \in {"measure", "reset"}
    THEN LET q == op.qs[1]
             p == measurement_probabilities(b.st, q)
         IN {IF op.name = "measure"
             THEN Branch(RMul(b.w, p[o + 1]), collapse_statevector(b.st, q, o),
                         [b.cl EXCEPT ![op.cbit + 1] = o])
             ELSE Branch(RMul(b.w, p[o + 1]),
                         IF o = 1 THEN Evolve(collapse_statevector(b.st, q, o), <<Op("x", <<q>>)>>)
                         ELSE collapse_statevector(b.st, q, o),
                         b.cl)
             : o \in {o \in {0, 1} : RPos(p[o + 1])}}
    ELSE {Branch(b.w, EvolveOp(b.st, op), b.cl)}

-----------------------------------------------------------------------------
(* The state machine of run_circuit *)

Methods == {"qasm", "statevector", "noisy"}

EmptyDict == <<>>

InitialBranches(n) == <<Branch(ROne, ZeroState(n), [k \in 1..n |-> 0])>>

\* the state of a request before run_circuit starts
Fresh(req) ==
    /\ num_qubits = req.num_qubits
    /\ gates = req.gates
    /\ method = req.method
    /\ shots = req.shots
    /\ max_qubits = req.max_qubits
    /\ pc = "start"
    /\ gates_sorted = <<>>
    /\ gi = 1
    /\ branches = <<>>
    /\ has_measurements = FALSE
    /\ qc_ops = <<>>
    /\ probabilities = EmptyDict
    /\ counts = EmptyDict
    /\ per_qubit = EmptyDict
    /\ statevector = None
    /\ warnings = None
    /\ error = NoError
    /\ path = "none"
    /\ prev_branches = <<>>

\* int(os.getenv("STATEVECTOR_MAX_QUBITS", "10")) when the variable is not set
DefaultMaxQubits == 10

OverCap_Inclusive(n, cap) == n >= cap

\* line 564: num_qubits > max_qubits
OverCap(n, cap) == n > cap

CapacityError == Err("ValueError", "Statevector simulation is limited")

\* lines 518-586, 632-635, 734: sort the gates, check the qubit cap of the
\* statevector method and enter the strategy
Dispatch ==
    /\ pc = "start"
    /\ gates_sorted' = SortGates(gates)
    /\ IF method = "statevector"
       THEN IF OverCap(num_qubits, max_qubits)
            THEN pc' = "error" /\ error' = CapacityError /\ UNCHANGED <<path, branches>>
            ELSE IF UseFastPath(gates_sorted')
            THEN pc' = "fast" /\ path' = "fast" /\ branches' = <<>> /\ UNCHANGED error
            ELSE pc' = "branch" /\ path' = "branching"
                 /\ branches' = InitialBranches(num_qubits) /\ UNCHANGED error
       ELSE pc' = "build" /\ path' = "sampled" /\ branches' = <<>> /\ UNCHANGED error
    /\ UNCHANGED <<num_qubits, gates, method, shots, max_qubits, per_qubit, gi, has_measurements,
                   qc_ops, probabilities, counts, statevector, warnings,
                   prev_branches, cin, cout>>

FastPathResult(qc_sv) ==
    IF ~IsNone(qc_sv.err)
    THEN /\ pc' = "error" /\ error' = qc_sv.err
         /\ UNCHANGED <<probabilities, counts, per_qubit, statevector>>
    ELSE /\ pc' = "done"
         /\ statevector' = Some(Evolve(ZeroState(num_qubits), qc_sv.ops))
         /\ probabilities' = StateProbabilities(Val(statevector'), num_qubits)
         /\ counts' = probabilities_to_counts(probabilities', shots)
         /\ per_qubit' = per_qubit_probabilities(counts', num_qubits)
         /\ UNCHANGED error

\* lines 586-625: the fast path, from the circuit to the result
FastPath ==
    /\ pc = "fast"
    /\ FastPathResult(FastPathCircuit(gates_sorted, num_qubits))
    /\ UNCHANGED <<num_qubits, gates, method, shots, max_qubits, gates_sorted, gi, branches,
                   has_measurements, qc_ops, warnings, path, prev_branches, cin, cout>>

BranchGateResult(r) ==
    IF ~IsNone(r.err)
    THEN pc' = "error" /\ error' = r.err /\ UNCHANGED <<branches, gi>>
    ELSE branches' = r.out /\ gi' = gi + 1 /\ UNCHANGED <<pc, error>>

\* lines 637-671: one gate of the branching strategy
BranchGate ==
    /\ pc = "branch"
    /\ gi <= Len(gates_sorted)
    /\ has_measurements' = (has_measurements \/ IsMeasure(gates_sorted[gi]))
    /\ prev_branches' = branches
    /\ BranchGateResult(BranchingGate(branches, gates_sorted[gi], num_qubits))
    /\ UNCHANGED <<num_qubits, gates, method, shots, max_qubits, per_qubit, gates_sorted, qc_ops,
                   probabilities, counts, statevector, warnings, path, cin, cout>>

\* lines 673-705: the result of the branching strategy
BranchFinish ==
    /\ pc = "branch"
    /\ gi > Len(gates_sorted)
    /\ pc' = "done"
    /\ probabilities' = BranchProbabilities(branches, num_qubits)
    /\ counts' = probabilities_to_counts(probabilities', shots)
    /\ per_qubit' = per_qubit_probabilities(counts', num_qubits)
    /\ statevector' = IF (~has_measurements) /\ branches # <<>>
                      THEN Some(branches[1].st) ELSE None
    /\ warnings' = IF (~has_measurements) /\ branches # <<>> THEN None
                   ELSE IF has_measurements
                        THEN Some(<<"Statevector output is unavailable">>) ELSE None
    /\ UNCHANGED <<num_qubits, gates, method, shots, max_qubits, gates_sorted, gi, branches,
                   has_measurements, qc_ops, error, path, prev_branches, cin, cout>>

SampledBuildResult(qc) ==
    IF ~IsNone(qc.err)
    THEN pc' = "error" /\ error' = qc.err /\ UNCHANGED <<qc_ops, branches>>
    ELSE /\ pc' = "run" /\ qc_ops' = qc.ops
         /\ branches' = InitialBranches(num_qubits)
         /\ UNCHANGED error

\* lines 734-742: build the circuit of the shot-based methods
SampledBuild ==
    /\ pc = "build"
    /\ SampledBuildResult(SampledCircuit(gates_sorted, num_qubits))
    /\ UNCHANGED <<num_qubits, gates, method, shots, max_qubits, per_qubit, gates_sorted, gi,
                   has_measurements, probabilities, counts, statevector, warnings,
                   path, prev_branches, cin, cout>>

\* lines 760-761: one instruction of one shot
SampledStep ==
    /\ pc = "run"
    /\ gi <= Len(qc_ops)
    /\ \E b \in ShotSuccessors(branches[1], qc_ops[gi]) : branches' = <<b>>
    /\ prev_branches' = branches
    /\ gi' = gi + 1
    /\ UNCHANGED <<num_qubits, gates, method, shots, max_qubits, per_qubit, pc, gates_sorted,
                   has_measurements, qc_ops, probabilities, counts, statevector,
                   warnings, error, path, cin, cout>>

\* lines 765-813: the shot is over; its classical bits are one entry of the counts
SampledFinish ==
    /\ pc = "run"
    /\ gi > Len(qc_ops)
    /\ pc' = "done"
    /\ UNCHANGED <<num_qubits, gates, method, shots, max_qubits, per_qubit, gates_sorted, gi, branches,
                   has_measurements, qc_ops, probabilities, counts, statevector,
                   warnings, error, path, prev_branches, cin, cout>>

Next ==
    \/ Dispatch
    \/ FastPath
    \/ BranchGate
    \/ BranchFinish
    \/ SampledBuild
    \/ SampledStep
    \/ SampledFinish

-----------------------------------------------------------------------------
(* Requests *)

\* params["reads_classical"]: absent, an int, a list (of length n), or another
\* truthy value such as a register name
NoReads == [kind |-> "none", n |-> 0]
ReadsInt(k) == [kind |-> "int", n |-> k]
ReadsList(len) == [kind |-> "list", n |-> len]
ReadsOther == [kind |-> "other", n |-> 0]

\* params["qubits"] is the vector an "input" gate declares (None on other gates)
DefaultParams == [basis |-> None, cbit |-> None, classical_bit |-> None,
                  reset_after |-> FALSE, condition |-> NoCondition,
                  reads_classical |-> NoReads, qubits |-> None]

Gate(type, q) == [type |-> type, qubit |-> Some(q), targets |-> <<>>, controls |-> <<>>,
                  position |-> None, params |-> DefaultParams]
Cx(c, t) == [Gate("cx", c) EXCEPT !.targets = <<t>>]
Cond(g, condition) == [g EXCEPT !.params.condition = condition]
Measure(q, cbit) == [Gate("measure", q) EXCEPT !.params.cbit = cbit]
Reset(g) == [g EXCEPT !.params.reset_after = TRUE]
Basis(g, b) == [g EXCEPT !.params.basis = Some(b)]
At(g, position) == [g EXCEPT !.position = position]

\* positions 0, 1, 2, ... in list order, as the circuit editor numbers its columns
Columns(gs) == [k \in DOMAIN gs |-> At(gs[k], Some(k - 1))]

\* well-formed gates on n qubits: unitaries, conditioned gates, measurements
WellFormed(n) ==
    {Gate("h", 0), Gate("x", 0), Gate("x", n - 1)}
    \cup (IF n >= 2 THEN {Cx(0, 1)} ELSE {})
    \cup {Cond(Gate("x", 0), CondInt(1)), Cond(Gate("x", 0), CondInt(0)),
          Cond(Gate("x", n - 1), CondBits(<<0>>, 1)), Cond(Gate("x", 0), CondBits(<<0>>, 0))}
    \cup (IF n >= 2 THEN {Cond(Gate("x", 0), CondBits(<<0, 1>>, 2))} ELSE {})
    \cup {Measure(0, None), Measure(n - 1, Some(0)), Reset(Measure(0, Some(n - 1))),
          Reset(Measure(0, None)), Basis(Measure(0, None), "x")}

\* a call of run_circuit with its other arguments left at their defaults
Request(n, gs, m) == [num_qubits |-> n, gates |-> gs, method |-> m, shots |-> ReqShots,
                      max_qubits |-> DefaultMaxQubits]

CountsIdle == cin = <<>> /\ cout = <<>>

Init ==
    /\ \E n \in 1..MaxQubits, m \in Methods, len \in 0..MaxGates :
          \E gs \in [1..len -> WellFormed(n)] : Fresh(Request(n, Columns(gs), m))
    /\ CountsIdle

Spec == Init /\ [][Next]_vars

-----------------------------------------------------------------------------
(* _probabilities_to_counts on its own: every distribution over at most    *)
(* MaxKeys outcomes with integer weights, every shots in 0..MaxShots       *)

CountKeys == {Format(i, MaxKeys) : i \in 0..(MaxKeys - 1)}

CountInputs ==
    {[probs |-> [k \in K |-> Rat(w[k], 1)], shots |-> s] :
        s \in 0..MaxShots,
        w \in [CountKeys -> 0..MaxWeight],
        K \in {CountKeys} \cup {{k} : k \in CountKeys}}

\* run_circuit is idle while _probabilities_to_counts is modelled on its own
RunIdle ==
    /\ num_qubits = 0 /\ gates = <<>> /\ method = "" /\ shots = 0 /\ pc = "idle"
    /\ max_qubits = DefaultMaxQubits /\ per_qubit = EmptyDict
    /\ gates_sorted = <<>> /\ gi = 1 /\ branches = <<>> /\ has_measurements = FALSE
    /\ qc_ops = <<>> /\ probabilities = EmptyDict /\ counts = EmptyDict
    /\ statevector = None /\ warnings = None /\ error = NoError /\ path = "none"
    /\ prev_branches = <<>>

InitCounts == RunIdle /\ cin \in CountInputs /\ cout = None

CountsCall ==
    /\ cout = None
    /\ cout' = Some(probabilities_to_counts(cin.probs, cin.shots))
    /\ UNCHANGED <<num_qubits, gates, method, shots, max_qubits, per_qubit, pc, gates_sorted, gi, branches,
                   has_measurements, qc_ops, probabilities, counts, statevector,
                   warnings, error, path, prev_branches, cin>>

NextCounts == CountsCall

SpecCounts == InitCounts /\ [][NextCounts]_vars

-----------------------------------------------------------------------------
(* Claims *)

TotalOf(f) == SumFun(f, DOMAIN f)
RTotalOf(f) == RSumFun(f, DOMAIN f)

\* C1: for every outcome distribution with positive total probability and
\* every shots >= 1, the counts _probabilities_to_counts derives sum to
\* exactly shots.
C1_CountsSumToShots ==
    (cout # None /\ cin.shots >= 1 /\ RPos(RTotalOf(cin.probs)))
        => TotalOf(Val(cout)) = cin.shots

\* C1 witness: a call with shots >= 1 in which the floors fall short of shots,
\* so that the remainder pass handed out at least one count.
C1_Witness ==
    /\ cout # None
    /\ cin.shots >= 1
    /\ RPos(RTotalOf(cin.probs))
    /\ \E k \in DOMAIN Val(cout) :
          Val(cout)[k] > IntOf(RMul(RDiv(cin.probs[k], RTotalOf(cin.probs)),
                                    Rat(cin.shots, 1)))

MassOf(bs) == RSumSeq([k \in DOMAIN bs |-> bs[k].w])

\* the gate the last BranchGate step processed
LastGate == gates_sorted[gi - 1]
AfterBranchStep == path = "branching" /\ pc \in {"branch", "done"} /\ gi > 1

\* C2: in branching exact execution the masses of the live branches sum to 1
\* after every processed gate, a non-measurement gate (conditioned or not)
\* leaves each branch's mass unchanged, and the final outcome distribution
\* sums to 1.
C2_BranchMassIsOne ==
    /\ (path = "branching" /\ pc \in {"branch", "done"}) => MassOf(branches) = ROne
    /\ (AfterBranchStep /\ ~IsMeasure(LastGate))
          => /\ Len(branches) = Len(prev_branches)
             /\ \A k \in DOMAIN branches : branches[k].w = prev_branches[k].w
    /\ (path = "branching" /\ pc = "done") => RTotalOf(probabilities) = ROne

\* C2 witness: a finished branching run that split at a measurement and then
\* measured again or applied a conditioned gate.
C2_Witness ==
    /\ path = "branching" /\ pc = "done"
    /\ Len(branches) >= 2
    /\ Len(gates_sorted) >= 3
    /\ \E k \in DOMAIN branches : branches[k].w # ROne

\* what a condition with an integer value asks of the classical bits: the value
\* equals the listed bits packed LSB-first, or the whole register
HasValueCondition(g) ==
    g.params.condition.kind # "none" /\ ~IsNone(g.params.condition.value)
ConditionHolds(condition, cl) ==
    IF IsNone(condition.bits) THEN RegValue(cl) = Val(condition.value)
    ELSE PackBits(Val(condition.bits), cl) = Val(condition.value)

\* C3: under the statevector method a gate carrying a condition with integer
\* value v (bare or {bits, value}, v = 0 included) is applied to a live branch
\* iff v equals the branch's classical bits packed LSB-first over the listed
\* subset (the whole register when none is listed); a branch where the
\* condition does not hold is left unchanged; no branch is added or removed.
C3_ConditionDecidesPerBranch ==
    (AfterBranchStep /\ ~IsMeasure(LastGate) /\ HasValueCondition(LastGate))
      => /\ Len(branches) = Len(prev_branches)
         /\ \A k \in DOMAIN branches :
               branches[k] =
                 IF ConditionHolds(LastGate.params.condition, prev_branches[k].cl)
                 THEN Branch(prev_branches[k].w,
                             apply_gate_unitary(prev_branches[k].st, LastGate, num_qubits).st,
                             prev_branches[k].cl)
                 ELSE prev_branches[k]

\* the classical bit a measurement gate names: cbit, else classical_bit, else
\* the measured qubit's own index
NamedCbit(g) == IF ~IsNone(g.params.cbit) THEN g.params.cbit ELSE g.params.classical_bit
ClaimedCbit(g) == IF IsNone(NamedCbit(g)) THEN Val(MeasureTarget(g)) ELSE Val(NamedCbit(g))

IsMeasureOp(op) == op.name = "measure"
AmpsAgree(st, q, v) == \A i \in DOMAIN st.amp : st.amp[i] # CZero => Bit(i, q) = v

\* C4: a measurement gate on qubit q whose params name classical bit c records
\* its outcome in classical bit c (c = 0 with q # 0 included) and leaves every
\* other classical bit unchanged; bit q is used only when no cbit is named.
\* In branching execution and in sampled execution alike.
C4_MeasureWritesNamedCbit ==
    /\ (AfterBranchStep /\ IsMeasure(LastGate))
          => branches = OverBranches(prev_branches, LastGate,
                                     normalize_basis(LastGate.params.basis),
                                     LastGate.params.reset_after,
                                     Val(MeasureTarget(LastGate)), ClaimedCbit(LastGate),
                                     num_qubits).out
    /\ (path = "sampled" /\ pc \in {"run", "done"} /\ MeasureGates(gates_sorted) # <<>>)
          => /\ Len(SelectSeq(qc_ops, IsMeasureOp)) = Len(MeasureGates(gates_sorted))
             /\ \A k \in DOMAIN MeasureGates(gates_sorted) :
                   /\ SelectSeq(qc_ops, IsMeasureOp)[k].qs[1]
                         = Val(MeasureTarget(MeasureGates(gates_sorted)[k]))
                   /\ SelectSeq(qc_ops, IsMeasureOp)[k].cbit
                         = ClaimedCbit(MeasureGates(gates_sorted)[k])
    /\ (path = "sampled" /\ pc = "run" /\ gi > 1 /\ IsMeasureOp(qc_ops[gi - 1]))
          => /\ AmpsAgree(branches[1].st, qc_ops[gi - 1].qs[1],
                          branches[1].cl[qc_ops[gi - 1].cbit + 1])
             /\ \A j \in DOMAIN branches[1].cl :
                   j # qc_ops[gi - 1].cbit + 1 => branches[1].cl[j] = prev_branches[1].cl[j]

IsResetMeasure(g) == IsMeasure(g) /\ g.params.reset_after
FinalGate == gates_sorted[Len(gates_sorted)]

ClassicalBitsOf(bs) == [k \in DOMAIN bs |-> bs[k].cl]

\* the character of qubit q in a result bitstring
QubitChar(key, q) == key[Len(key) - q]
QubitReadsZero(q) ==
    \A key \in DOMAIN probabilities : RPos(probabilities[key]) => QubitChar(key, q) = "0"

\* C5: under the statevector method, after a measurement with reset_after on
\* qubit q, q is |0> with probability 1 in the state the outcome distribution
\* is computed from, whether further gates follow (branching) or the
\* measurement is trailing (fast path).
C5_ResetLeavesZero ==
    /\ (AfterBranchStep /\ pc = "branch" /\ IsResetMeasure(LastGate))
          => \A k \in DOMAIN branches :
                AmpsAgree(branches[k].st, Val(MeasureTarget(LastGate)), 0)
    /\ (AfterBranchStep /\ IsResetMeasure(LastGate))
          => ClassicalBitsOf(branches)
               = ClassicalBitsOf(OverBranches(prev_branches, LastGate,
                                              normalize_basis(LastGate.params.basis), FALSE,
                                              Val(MeasureTarget(LastGate)),
                                              ClaimedCbit(LastGate), num_qubits).out)
    /\ (method = "statevector" /\ pc = "done" /\ gates_sorted # <<>>
        /\ IsResetMeasure(FinalGate))
          => QubitReadsZero(Val(MeasureTarget(FinalGate)))

\* the list ends with `measure q in Z into c` and `X on q if c == 1`
EndsWithMeasureThenFlip ==
    /\ Len(gates_sorted) >= 2
    /\ LET m == gates_sorted[Len(gates_sorted) - 1]
           x == FinalGate
       IN /\ IsMeasure(m) /\ normalize_basis(m.params.basis) = "z" /\ ~m.params.reset_after
          /\ x.type = "x" /\ x.qubit = MeasureTarget(m)
          /\ \/ x.params.condition = CondBits(<<ClaimedCbit(m)>>, 1)
             \/ /\ x.params.condition = CondInt(1)
                /\ ClaimedCbit(m) = 0
                /\ Len(MeasureGates(gates_sorted)) = 1

\* C6: for any prior state of q, `measure q in Z into c` followed by `X on q
\* conditioned on c == 1` leaves q in |0> in every live branch, so every
\* bitstring with non-zero final probability has q = 0.
C6_MeasureThenFlipGivesZero ==
    (method = "statevector" /\ pc = "done" /\ EndsWithMeasureThenFlip)
        => QubitReadsZero(Val(FinalGate.qubit))

-----------------------------------------------------------------------------
(* Requests whose gates carry any position, present or missing, ties included *)

MaxPos == 1

Positions == {None} \cup {Some(p) : p \in 0..MaxPos}

Placed(n) ==
    {At(g, p) : g \in {Gate("x", 0), Measure(0, None), Basis(Measure(0, None), "x"),
                       Cond(Gate("x", 0), CondBits(<<0>>, 1))},
                p \in Positions}

InitOrder ==
    /\ \E m \in Methods, len \in 0..MaxGates :
          \E gs \in [1..len -> Placed(1)] : Fresh(Request(1, gs, m))
    /\ CountsIdle

SpecOrder == InitOrder /\ [][Next]_vars

MeasuredBeforeGate(gs) ==
    \E i, j \in DOMAIN gs : i < j /\ IsMeasure(gs[i]) /\ ~IsMeasure(gs[j])
CarriesCondition(g) == g.params.condition.kind # "none"

\* C7: under the statevector method branching execution is used whenever, in
\* application order (stable sort by position, a missing position as 0), some
\* measurement gate is applied before some non-measurement gate, or any gate
\* carries a classical condition; the fast path only when neither is the case.
C7_BranchingIffMidCircuitOrCondition ==
    (method = "statevector" /\ path # "none")
        => (path = "branching"
              <=> (\/ MeasuredBeforeGate(gates_sorted)
                   \/ \E k \in DOMAIN gates_sorted : CarriesCondition(gates_sorted[k])))

-----------------------------------------------------------------------------
(* Requests with defective gates: unknown types, qubits and classical bits out
   of range, measurements without a target *)

Untargeted(g) == [g EXCEPT !.qubit = None]

Defective(n) ==
    {Gate("x", 0), Measure(0, None), Cond(Gate("x", 0), CondBits(<<0>>, 1))}
    \cup {Gate("foo", 0), Cond(Gate("foo", 0), CondBits(<<0>>, 1))}
    \cup {Gate("x", n), Measure(n, Some(n - 1)), Untargeted(Measure(0, None))}
    \cup {Measure(0, Some(n)), Cond(Gate("x", 0), CondBits(<<n>>, 1)),
          Cond(Gate("x", 0), CondBits(<<0, n>>, 1))}

InitErr ==
    /\ \E n \in 1..MaxQubits, m \in Methods, len \in 0..MaxGates :
          \E gs \in [1..len -> Defective(n)] : Fresh(Request(n, Columns(gs), m))
    /\ CountsIdle

SpecErr == InitErr /\ [][Next]_vars

\* the gate types _apply_gate has a case for
GateTypes ==
    SingleQubitTypes \cup {"p", "cp", "cnot", "cx", "cz", "swap", "toffoli", "ccx", "measure"}

UnknownType(g) == g.type \notin GateTypes
OutOfRange(i, n) == i < 0 \/ i >= n
QubitOutOfRange(g, n) ==
    \/ ~IsNone(g.qubit) /\ OutOfRange(Val(g.qubit), n)
    \/ \E k \in DOMAIN g.targets : OutOfRange(g.targets[k], n)
    \/ \E k \in DOMAIN g.controls : OutOfRange(g.controls[k], n)
NoTarget(g) == IsMeasure(g) /\ IsNone(MeasureTarget(g))
CbitOutOfRange(g, n) ==
    IsMeasure(g) /\ ~IsNone(NamedCbit(g)) /\ OutOfRange(Val(NamedCbit(g)), n)
ConditionBitOutOfRange(g, n) ==
    /\ g.params.condition.kind = "dict"
    /\ ~IsNone(g.params.condition.bits)
    /\ ~BitsInRange(Val(g.params.condition.bits), n)
Sound(g, n) ==
    ~(UnknownType(g) \/ QubitOutOfRange(g, n) \/ NoTarget(g) \/ CbitOutOfRange(g, n)
      \/ ConditionBitOutOfRange(g, n))

\* C8: a request whose gate list contains a gate of an unrecognised type
\* returns no result, on every execution path and with or without a condition
\* on that gate; when that type is the request's only defect the error names it.
C8_UnknownTypeFails ==
    \A k \in DOMAIN gates :
        UnknownType(gates[k])
          => /\ pc # "done"
             /\ (pc = "error" /\ \A j \in DOMAIN gates :
                                    Sound(gates[j], num_qubits) \/ gates[j].type = gates[k].type)
                   => error = Err("Unsupported gate type", gates[k].type)

\* C9: a request with a gate whose qubit index lies outside [0, num_qubits), or
\* with a measurement gate that has no target qubit, returns no result, on
\* every execution path.
C9_QubitOutOfRangeFails ==
    (\E k \in DOMAIN gates : QubitOutOfRange(gates[k], num_qubits) \/ NoTarget(gates[k]))
        => pc # "done"

\* C10: a request in which a measurement names a classical bit outside
\* [0, num_qubits), or a condition lists a classical bit outside the register
\* (in a subset of any length), returns no result, on every execution path.
C10_ClassicalBitOutOfRangeFails ==
    (\E k \in DOMAIN gates :
        CbitOutOfRange(gates[k], num_qubits) \/ ConditionBitOutOfRange(gates[k], num_qubits))
        => pc # "done"

-----------------------------------------------------------------------------
(* Requests with toffoli gates of every shape *)

TofQubits == 4

Toffoli(cs, ts) == [Gate("toffoli", 0) EXCEPT !.qubit = None, !.controls = cs, !.targets = ts]

Toffolis(n) ==
    {Gate("x", 0), Gate("x", 1), Measure(n - 1, None),
     Cond(Gate("x", 0), CondBits(<<n - 1>>, 1))}
    \cup {Toffoli(<<0, 1>>, <<n - 1>>), Toffoli(<<0>>, <<n - 1>>), Toffoli(<<0, 1>>, <<>>),
          Toffoli(<<0, 1, 2>>, <<n - 1>>), Toffoli(<<0, 1>>, <<n - 1, 2>>)}

InitTof ==
    /\ \E m \in Methods, len \in 0..MaxGates :
          \E gs \in [1..len -> Toffolis(TofQubits)] : Fresh(Request(TofQubits, Columns(gs), m))
    /\ CountsIdle

SpecTof == InitTof /\ [][Next]_vars

IsToffoli(g) == g.type \in {"toffoli", "ccx"}

\* C11: a toffoli/ccx gate is applied only with exactly two controls and exactly
\* one target; with any other number of controls or of targets the request
\* fails with an error.
C11_ToffoliNeedsExactShape ==
    (\E k \in DOMAIN gates :
        IsToffoli(gates[k]) /\ (Len(gates[k].controls) # 2 \/ Len(gates[k].targets) # 1))
        => pc # "done"

-----------------------------------------------------------------------------
(* Requests under a small qubit cap set by the environment *)

MaxCap == 2

Capped(n) ==
    {Gate("h", 0), Gate("x", n - 1), Measure(0, None),
     Cond(Gate("x", 0), CondBits(<<0>>, 1))}

InitCap ==
    /\ \E n \in 1..MaxQubits, m \in Methods, len \in 0..MaxGates, cap \in 1..MaxCap :
          \E gs \in [1..len -> Capped(n)] :
             Fresh([Request(n, Columns(gs), m) EXCEPT !.max_qubits = cap])
    /\ CountsIdle

SpecCap == InitCap /\ [][Next]_vars

NothingApplied ==
    /\ branches = <<>> /\ qc_ops = <<>> /\ gi = 1
    /\ statevector = None /\ probabilities = EmptyDict /\ counts = EmptyDict

\* C12: under the statevector method a request with num_qubits above the cap
\* fails with an error before any gate is applied, whatever the gate list; a
\* request with num_qubits <= cap never fails for capacity; qasm and noisy are
\* never capped.
C12_CapOnlyStatevectorAboveCap ==
    pc # "start"
      => /\ (method = "statevector" /\ num_qubits > max_qubits)
               => (pc = "error" /\ error = CapacityError /\ NothingApplied)
         /\ error = CapacityError
               => (method = "statevector" /\ num_qubits > max_qubits)

C12_Witness ==
    /\ pc = "error" /\ error = CapacityError
    /\ ~UseFastPath(gates_sorted) /\ Len(gates_sorted) >= 2

-----------------------------------------------------------------------------
\* C13: a statevector-method result carries a statevector iff no measurement
\* gate was executed; when the executed gate list contains a measurement gate
\* the statevector is null and a non-empty warnings list is attached.
C13_StatevectorIffNoMeasurement ==
    (method = "statevector" /\ pc = "done")
      => /\ (statevector # None) <=> (MeasureGates(gates_sorted) = <<>>)
         /\ MeasureGates(gates_sorted) # <<>>
               => (statevector = None /\ warnings # None /\ Val(warnings) # <<>>)

-----------------------------------------------------------------------------
HasExplicitMeasure == MeasureGates(gates_sorted) # <<>>
MeasureOps == SelectSeq(qc_ops, IsMeasureOp)
WrittenCbits == {MeasureOps[k].cbit : k \in DOMAIN MeasureOps}

\* the circuit ends with `measure qubit i into classical bit i` for every i,
\* and holds no other measurement
EndsWithMeasureAll ==
    /\ Len(qc_ops) >= num_qubits
    /\ SubSeq(qc_ops, Len(qc_ops) - num_qubits + 1, Len(qc_ops)) = MeasureAll(num_qubits)
    /\ Len(MeasureOps) = num_qubits

\* C14: in sampled execution a measurement of every qubit i into classical bit
\* i is appended after all gates iff the gate list has no gate of type measure;
\* with an explicit measurement none is added, so every classical bit that no
\* explicit measurement writes reads 0 in the shot.
C14_ImplicitMeasureIffNoExplicit ==
    (path = "sampled" /\ pc \in {"run", "done"})
      => /\ (~HasExplicitMeasure) => EndsWithMeasureAll
         /\ HasExplicitMeasure => Len(MeasureOps) = Len(MeasureGates(gates_sorted))
         /\ (HasExplicitMeasure /\ pc = "done")
               => \A c \in 0..(num_qubits - 1) :
                     c \notin WrittenCbits => branches[1].cl[c + 1] = 0

C14_Witness ==
    /\ path = "sampled" /\ pc = "done" /\ HasExplicitMeasure
    /\ \E c \in 0..(num_qubits - 1) : c \notin WrittenCbits
    /\ \E c \in WrittenCbits : branches[1].cl[c + 1] = 1
    /\ \E k \in DOMAIN gates_sorted : gates_sorted[k].type = "h"

-----------------------------------------------------------------------------
\* gates with sort key v, in the order of the list gs
WithKey(gs, v) == LET HasKey(g) == sort_key(g) = v IN SelectSeq(gs, HasKey)

\* sorted holds the gates of gs by non-decreasing key, equal keys in list order
IsStableSort(gs, sorted) ==
    /\ Len(sorted) = Len(gs)
    /\ \A j, k \in DOMAIN sorted : j < k => sort_key(sorted[j]) <= sort_key(sorted[k])
    /\ \A v \in {sort_key(gs[k]) : k \in DOMAIN gs} : WithKey(sorted, v) = WithKey(gs, v)

\* the fast path's circuit had it taken the gates one by one in sorted order
InOrder(g, n) == IF IsMeasure(g) THEN TrailingRotation(g, n) ELSE apply_gate(g, n, 0)
RECURSIVE InOrderCircuit(_, _)
InOrderCircuit(gs, n) ==
    IF gs = <<>> THEN Built(<<>>)
    ELSE OpsThen(InOrder(Head(gs), n), InOrderCircuit(Tail(gs), n))

\* C15: gates are applied in non-decreasing position order, equal positions (a
\* missing position counting as 0) in list order, and the same application
\* order is used by all three methods.
C15_AppliedInStablePositionOrder ==
    /\ pc # "start" => IsStableSort(gates, gates_sorted)
    /\ (path = "fast" /\ pc = "done")
          => Val(statevector)
               = Evolve(ZeroState(num_qubits), InOrderCircuit(gates_sorted, num_qubits).ops)
    /\ (path = "sampled" /\ pc \in {"run", "done"})
          => \E tail \in {<<>>, MeasureAll(num_qubits)} :
                qc_ops = BuildAll(gates_sorted, num_qubits, num_qubits).ops \o tail
    /\ AfterBranchStep
          => \/ branches = BranchingGate(prev_branches, LastGate, num_qubits).out
             \/ pc = "done"

-----------------------------------------------------------------------------
(* Requests that prepare a qubit and measure it in a basis *)

BasisGates == 4

Bases == {"z", "x", "y"}

Preparations(n) ==
    {Gate("h", n - 1), Gate("x", n - 1), Gate("s", n - 1)}
    \cup {Basis(Measure(n - 1, None), b) : b \in Bases}

InitBasis ==
    /\ \E n \in 1..MaxQubits, m \in Methods, len \in 0..BasisGates :
          \E gs \in [1..len -> Preparations(n)] : Fresh(Request(n, Columns(gs), m))
    /\ CountsIdle

SpecBasis == InitBasis /\ [][Next]_vars

\* the gate types that take |0> to the eigenstate of basis b with eigenvalue
\* +1 (outcome 0) or -1 (outcome 1)
Eigenstate(b, outcome) ==
    (IF outcome = 1 THEN <<"x">> ELSE <<>>)
    \o (IF b = "z" THEN <<>> ELSE IF b = "x" THEN <<"h">> ELSE <<"h", "s">>)

TypesOf(gs) == [k \in DOMAIN gs |-> gs[k].type]

\* the first m gates prepare, on one qubit, the eigenstate of basis b for
\* `outcome` and then measure that qubit in basis b
MeasuresEigenstate(m, b, outcome) ==
    /\ m = Len(Eigenstate(b, outcome)) + 1
    /\ m <= Len(gates_sorted)
    /\ TypesOf(SubSeq(gates_sorted, 1, m)) = Eigenstate(b, outcome) \o <<"measure">>
    /\ normalize_basis(gates_sorted[m].params.basis) = b

TheQubit == Val(gates_sorted[1].qubit)

\* C16: for each basis b in {z, x, y}, measuring in basis b a qubit prepared in
\* the +1 eigenstate of b gives outcome 0 with probability 1, and the -1
\* eigenstate gives outcome 1 with probability 1: in the fast path's
\* distribution, in the single branch of the branching strategy, and in every
\* qasm shot.
C16_EigenstateHasCertainOutcome ==
    \A b \in Bases, outcome \in {0, 1} :
       /\ (path = "fast" /\ pc = "done"
           /\ MeasuresEigenstate(Len(gates_sorted), b, outcome))
             => \A key \in DOMAIN probabilities :
                   probabilities[key]
                     = IF key = Format(outcome * (2 ^ TheQubit), num_qubits)
                       THEN ROne ELSE RZero
       /\ (AfterBranchStep /\ MeasuresEigenstate(gi - 1, b, outcome))
             => /\ Len(branches) = 1
                /\ branches[1].w = ROne
                /\ branches[1].cl[TheQubit + 1] = outcome
       /\ (method = "qasm" /\ pc = "done"
           /\ MeasuresEigenstate(Len(gates_sorted), b, outcome))
             => branches[1].cl[TheQubit + 1] = outcome

C16_Witness ==
    /\ path = "fast" /\ pc = "done"
    /\ MeasuresEigenstate(Len(gates_sorted), "y", 1)
    /\ probabilities[Format(2 ^ TheQubit, num_qubits)] = ROne

C16_WitnessBranching == AfterBranchStep /\ MeasuresEigenstate(gi - 1, "y", 0)

C16_WitnessShot == method = "qasm" /\ pc = "done" /\ MeasuresEigenstate(Len(gates_sorted), "x", 1)

-----------------------------------------------------------------------------
(* _get_angle.  A number is k + f * 2e-10 with k = round(number) and |f| * 2e-10
   below 1/2, which keeps 1e-9, 2*pi and 360 exact enough to compare against. *)

Tolerance == 5                   \* 1e-9 in units of 2e-10
FullTurn == 360
TwoPiWhole == 6                  \* 2*pi = 6.283185307179586 lies between
TwoPiTicks == 1415926535         \* 6 + TwoPiTicks * 2e-10 and one tick more

Num(k, f) == [kind |-> "num", k |-> k, f |-> f]
NotANumber == {[kind |-> "text", k |-> 0, f |-> 0], [kind |-> "none", k |-> 0, f |-> 0]}

\* abs(angle) <= bound for an integer bound
AbsAtMost(a, bound) ==
    /\ a.k < bound \/ (a.k = bound /\ a.f <= 0)
    /\ a.k > -bound \/ (a.k = -bound /\ a.f >= 0)

\* abs(angle) <= 2 * math.pi
AbsAtMostTwoPi(a) ==
    /\ a.k < TwoPiWhole \/ (a.k = TwoPiWhole /\ a.f <= TwoPiTicks)
    /\ a.k > -TwoPiWhole \/ (a.k = -TwoPiWhole /\ a.f >= -TwoPiTicks)

Degrees(a) == [err |-> NoError, unit |-> "degrees", angle |-> a]
Radians(a) == [err |-> NoError, unit |-> "radians", angle |-> a]
AngleError == [err |-> Err("ValueError", "Invalid angle value"), unit |-> "", angle |-> Num(0, 0)]

\* the heuristic without its near-integer rule
get_angle_RadiansFirst(value) ==
    IF value.kind # "num" THEN AngleError
    ELSE IF AbsAtMostTwoPi(value) THEN Radians(value)
    ELSE Degrees(value)

\* _get_angle: degrees stand for angle * pi / 180, radians for the angle itself
get_angle(value) ==
    IF value.kind # "num" THEN AngleError
    ELSE IF Abs(value.f) < Tolerance /\ AbsAtMost(value, FullTurn) THEN Degrees(value)
    ELSE IF AbsAtMostTwoPi(value) THEN Radians(value)
    ELSE Degrees(value)

AngleWholes == {-361, -360, -7, -6, -3, 0, 1, 2, 3, 4, 5, 6, 7, 90, 360, 361}
AngleTicks ==
    {0, 1, -1, 4, -4, 5, -5, 6, -6, 1000000000, -1000000000,
     TwoPiTicks, -TwoPiTicks, TwoPiTicks + 1, -(TwoPiTicks + 1)}
AngleInputs == {Num(k, f) : k \in AngleWholes, f \in AngleTicks} \cup NotANumber

InitAngle == RunIdle /\ cin \in AngleInputs /\ cout = None

AngleCall ==
    /\ cout = None
    /\ cout' = Some(get_angle(cin))
    /\ UNCHANGED <<num_qubits, gates, method, shots, max_qubits, per_qubit, pc, gates_sorted, gi,
                   branches, has_measurements, qc_ops, probabilities, counts, statevector,
                   warnings, error, path, prev_branches, cin>>

NextAngle == AngleCall

SpecAngle == InitAngle /\ [][NextAngle]_vars

\* the distance of a number to the nearest integer, against 1e-9
WithinOfInteger(a) == Abs(a.f) < Tolerance
BeyondOfInteger(a) == Abs(a.f) > Tolerance

\* C17: a numeric angle within 1e-9 of an integer and with |a| <= 360 is taken
\* as degrees; otherwise one with |a| <= 2*pi is taken as radians; otherwise it
\* is taken as degrees.  Every integer 1..6 is taken as degrees, and a value
\* that is not a number fails with an error.
C17_AngleClassification ==
    cout # None
      => /\ cin.kind = "num"
               => /\ Val(cout).err = NoError /\ Val(cout).angle = cin
                  /\ (WithinOfInteger(cin) /\ AbsAtMost(cin, FullTurn))
                        => Val(cout).unit = "degrees"
                  /\ ((BeyondOfInteger(cin) \/ ~AbsAtMost(cin, FullTurn))
                      /\ AbsAtMostTwoPi(cin))
                        => Val(cout).unit = "radians"
                  /\ ~AbsAtMostTwoPi(cin) => Val(cout).unit = "degrees"
                  /\ (cin.f = 0 /\ cin.k \in 1..6) => Val(cout).unit = "degrees"
         /\ cin.kind # "num" => Val(cout).err # NoError

C17_Witness ==
    /\ cout # None /\ cin.kind = "num" /\ cin.f = 0 /\ cin.k = 3
    /\ Val(cout).unit = "degrees"

-----------------------------------------------------------------------------
IsBitstring(key, n) == Len(key) = n /\ \A k \in DOMAIN key : key[k] \in {"0", "1"}

\* the basis state a bitstring names when qubit i is its (i+1)-th character
\* from the right
KeyIndex(key) ==
    SumSeq([k \in 1..Len(key) |-> IF QubitChar(key, k - 1) = "1" THEN 2 ^ (k - 1) ELSE 0])

CountWhere(i, bit) ==
    SumFun(counts, {key \in DOMAIN counts : QubitChar(key, i) = bit})

BranchMassAt(i) == RSumSeq([k \in DOMAIN branches |-> RMul(branches[k].w, ProbOf(branches[k].st, i))])

\* C18: in a statevector-method result every key of probabilities and counts is
\* a binary string of num_qubits characters with qubit i as the (i+1)-th
\* character from the right, and per_qubit_probabilities[i] gives for '1' the
\* fraction of counts whose character for qubit i is '1', for '0' the rest, the
\* two summing to 1 for every qubit.
C18_KeysAndPerQubitShares ==
    (method = "statevector" /\ pc = "done")
      => /\ \A key \in (DOMAIN probabilities) \cup (DOMAIN counts) :
               IsBitstring(key, num_qubits)
         /\ statevector # None
               => \A key \in DOMAIN probabilities :
                     probabilities[key] = ProbOf(Val(statevector), KeyIndex(key))
         /\ path = "branching"
               => \A key \in DOMAIN probabilities :
                     probabilities[key] = BranchMassAt(KeyIndex(key))
         /\ DOMAIN per_qubit = 0..(num_qubits - 1)
         /\ \A i \in 0..(num_qubits - 1) :
               /\ per_qubit[i]["1"] = Rat(CountWhere(i, "1"), TotalOf(counts))
               /\ per_qubit[i]["0"] = Rat(CountWhere(i, "0"), TotalOf(counts))
               /\ RAdd(per_qubit[i]["0"], per_qubit[i]["1"]) = ROne

C18_Witness ==
    /\ method = "statevector" /\ pc = "done" /\ num_qubits = 2
    /\ DOMAIN counts = {<<"0", "1">>}
    /\ per_qubit[0]["1"] = ROne /\ per_qubit[1]["1"] = RZero

-----------------------------------------------------------------------------
(* COSMIC functional-size metrics (cosmic_metrics.py) *)

MaxCosmicGates == 3

\* str.lower() on the gate types and approaches the requests use
Lower(t) ==
    CASE t = "CX" -> "cx"
      [] t = "Measure" -> "measure"
      [] t = "Types" -> "types"
      [] OTHER -> t

\* the reads a condition accounts for: one per listed bit, one for a condition
\* on the whole register or a bare value
ConditionReads_OnePerGate(condition) == IF condition.kind = "none" THEN 0 ELSE 1

ConditionReads(condition) ==
    IF condition.kind = "none" THEN 0
    ELSE IF condition.kind = "dict" /\ ~IsNone(condition.bits)
         THEN Len(Val(condition.bits))
         ELSE 1

\* the reads params["reads_classical"] adds to a gate that has `count` so far
ExtraReads(extra_reads, count) ==
    IF extra_reads.kind = "none" THEN 0
    ELSE IF extra_reads.kind \in {"int", "list"} THEN extra_reads.n
    ELSE IF count = 0 THEN 1 ELSE 0

\* _classical_read_count
classical_read_count(gate) ==
    ConditionReads(condition_from_params(gate.params))
    + ExtraReads(gate.params.reads_classical,
                 ConditionReads(condition_from_params(gate.params)))

\* one functional process of a result
FunctionalProcess(name, gate_type, fp_entries, fp_exits, fp_reads, fp_writes) ==
    [name |-> name, gate_type |-> gate_type, entries |-> fp_entries, exits |-> fp_exits,
     reads |-> fp_reads, writes |-> fp_writes,
     cfp |-> fp_entries + fp_exits + fp_reads + fp_writes]

Field(fps, f) == SumSeq([k \in DOMAIN fps |-> fps[k][f]])

\* the result dict: the totals over the functional processes
Metrics(approach, fps) ==
    [approach |-> approach, entries |-> Field(fps, "entries"), exits |-> Field(fps, "exits"),
     reads |-> Field(fps, "reads"), writes |-> Field(fps, "writes"),
     total_cfp |-> Field(fps, "entries") + Field(fps, "exits")
                   + Field(fps, "reads") + Field(fps, "writes"),
     functional_processes |-> fps]

\* calculate_cosmic_metrics, approach "occurrences": one process per gate
occurrences_metrics(gs) ==
    Metrics("occurrences",
            [idx \in DOMAIN gs |->
               FunctionalProcess(<<gs[idx].type, "-", idx - 1>>, gs[idx].type, 1, 1,
                                 classical_read_count(gs[idx]),
                                 IF gs[idx].type = "measure" THEN 1 ELSE 0)])

\* _gate_qubits: the distinct qubits a gate names (the code returns them sorted)
gate_qubits(gate) ==
    (IF IsNone(gate.qubit) THEN {} ELSE {Val(gate.qubit)})
    \cup Range(gate.targets) \cup Range(gate.controls)

\* _gate_qubit_count
gate_qubit_count(gate) ==
    IF gate_qubits(gate) = {} THEN 1 ELSE Cardinality(gate_qubits(gate))

\* _normalize_vector: a vector is kept as the set of its non-negative entries
normalize_vector(values) == {q \in Range(values) : q >= 0}

\* _dedupe_vectors, and the insertion order of dict keys: first occurrences only
RECURSIVE Dedupe(_)
Dedupe(s) ==
    IF s = <<>> THEN <<>>
    ELSE IF s[Len(s)] \in Range(SubSeq(s, 1, Len(s) - 1))
         THEN Dedupe(SubSeq(s, 1, Len(s) - 1))
         ELSE Append(Dedupe(SubSeq(s, 1, Len(s) - 1)), s[Len(s)])

NonEmptySet(v) == v # {}
Normalized_KeepDuplicates(vectors) ==
    SelectSeq([k \in DOMAIN vectors |-> normalize_vector(vectors[k])], NonEmptySet)

Normalized(vectors) ==
    Dedupe(SelectSeq([k \in DOMAIN vectors |-> normalize_vector(vectors[k])], NonEmptySet))

\* _infer_qubits_from_gates
infer_qubits_from_gates(gs, nq) ==
    IF ~IsNone(nq) /\ Val(nq) > 0 THEN 0..(Val(nq) - 1)
    ELSE UNION {gate_qubits(gs[k]) : k \in DOMAIN gs}

IsInput(g) == Lower(g.type) = "input"
IsMeasureType(g) == Lower(g.type) = "measure"
\* `params.get("qubits") or ...` is None for an absent or empty vector
IsPlaceholder(g) == IsNone(g.params.qubits) \/ Val(g.params.qubits) = <<>>
DeclaresVector(g) == ~IsPlaceholder(g)
DeclaredVector(g) == Val(g.params.qubits)

\* _resolve_input_vectors: [vectors, placeholder_count]
resolve_input_vectors(gs, nq, input_vectors) ==
    IF ~IsNone(input_vectors)
    THEN [vectors |-> Normalized(Val(input_vectors)), placeholder_count |-> 0]
    ELSE IF SelectSeq(gs, IsInput) # <<>>
              /\ (Normalized([k \in DOMAIN SelectSeq(SelectSeq(gs, IsInput), DeclaresVector) |->
                                DeclaredVector(SelectSeq(SelectSeq(gs, IsInput), DeclaresVector)[k])])
                    # <<>>
                  \/ SelectSeq(SelectSeq(gs, IsInput), IsPlaceholder) # <<>>)
    THEN [vectors |->
            Normalized([k \in DOMAIN SelectSeq(SelectSeq(gs, IsInput), DeclaresVector) |->
                          DeclaredVector(SelectSeq(SelectSeq(gs, IsInput), DeclaresVector)[k])]),
          placeholder_count |-> Len(SelectSeq(SelectSeq(gs, IsInput), IsPlaceholder))]
    ELSE IF infer_qubits_from_gates(gs, nq) # {}
    THEN [vectors |-> <<infer_qubits_from_gates(gs, nq)>>, placeholder_count |-> 0]
    ELSE [vectors |-> <<>>, placeholder_count |-> 0]

\* _resolve_measurement_vectors
resolve_measurement_vectors(gs, vectors, measurement_vectors) ==
    IF ~IsNone(measurement_vectors) THEN Normalized(Val(measurement_vectors))
    ELSE IF SelectSeq(gs, IsMeasureType) = <<>> THEN <<>>
    ELSE IF vectors # <<>> THEN vectors
    ELSE <<{}>>

\* _gate_reads_writes_for_types: <<reads, writes>>
gate_reads_writes_for_types_ByArity(gate_type, arity) == <<arity, arity>>

gate_reads_writes_for_types(gate_type, arity) ==
    IF Lower(gate_type) \in {"cnot", "cx", "swap"} THEN <<1, 1>> ELSE <<arity, arity>>

\* vector_map.get(q, -1): the index of the first input vector holding qubit q
VectorIndex(vectors, q) ==
    IF \E i \in DOMAIN vectors : q \in vectors[i]
    THEN (CHOOSE i \in DOMAIN vectors :
            q \in vectors[i] /\ \A j \in 1..(i - 1) : q \notin vectors[j]) - 1
    ELSE -1

VectorKey(gate, vectors) ==
    IF gate_qubits(gate) = {} THEN {-1}
    ELSE {VectorIndex(vectors, q) : q \in gate_qubits(gate)}

\* the key a gate is grouped under
GroupKey_TypeAndArity(gate, vectors) ==
    [gtype |-> Lower(gate.type), arity |-> gate_qubit_count(gate), vector_key |-> {-1}]

GroupKey(gate, vectors) ==
    [gtype |-> Lower(gate.type), arity |-> gate_qubit_count(gate),
     vector_key |-> VectorKey(gate, vectors)]

IsGrouped(g) == ~IsInput(g) /\ ~IsMeasureType(g)

\* gate_groups: its keys in insertion order
gate_groups(gs, vectors) ==
    Dedupe([k \in DOMAIN SelectSeq(gs, IsGrouped) |->
              GroupKey(SelectSeq(gs, IsGrouped)[k], vectors)])

InputCount(resolved, nq, input_vectors) ==
    IF Len(resolved.vectors) + resolved.placeholder_count = 0
       /\ IsNone(input_vectors) /\ ~IsNone(nq) /\ Val(nq) > 0
    THEN 1
    ELSE Len(resolved.vectors) + resolved.placeholder_count

InputProcesses(count) ==
    IF count > 0 THEN <<FunctionalProcess(<<"input">>, "input", count, 0, 0, count)>>
    ELSE <<>>

GroupProcesses(keys) ==
    [k \in DOMAIN keys |->
       FunctionalProcess(<<keys[k].gtype, ":", keys[k].arity>>, keys[k].gtype, 1, 0,
                         gate_reads_writes_for_types(keys[k].gtype, keys[k].arity)[1],
                         gate_reads_writes_for_types(keys[k].gtype, keys[k].arity)[2])]

MeasurementProcesses(count) ==
    IF count > 0
    THEN <<FunctionalProcess(<<"measurement">>, "measure", count, 0, count, count)>>
    ELSE <<>>

\* _calculate_types_metrics
TypesMetricsOn(gs, nq, input_vectors, measurement_vectors, resolved) ==
    Metrics("types",
            InputProcesses(InputCount(resolved, nq, input_vectors))
            \o GroupProcesses(gate_groups(gs, resolved.vectors))
            \o MeasurementProcesses(
                 Len(resolve_measurement_vectors(gs, resolved.vectors, measurement_vectors))))

calculate_types_metrics(gs, nq, input_vectors, measurement_vectors) ==
    TypesMetricsOn(gs, nq, input_vectors, measurement_vectors,
                   resolve_input_vectors(gs, nq, input_vectors))

\* _calculate_q_cosmic_metrics
QCosmicOn(q_entries, vectors, measured) ==
    [approach |-> "q-cosmic", entries |-> Len(vectors), exits |-> Len(measured),
     reads |-> 0, writes |-> 0, q_entries |-> q_entries, q_exits |-> q_entries,
     total_cfp |-> Len(vectors) + Len(measured) + 2 * q_entries,
     functional_processes |->
        <<[name |-> <<"quantum-system">>, gate_type |-> "q-cosmic",
           entries |-> Len(vectors), exits |-> Len(measured), reads |-> 0, writes |-> 0,
           q_entries |-> q_entries, q_exits |-> q_entries,
           cfp |-> Len(vectors) + Len(measured) + 2 * q_entries]>>]

calculate_q_cosmic_metrics(gs, nq, input_vectors, measurement_vectors) ==
    QCosmicOn(IF (~IsNone(nq) /\ Val(nq) # 0) \/ infer_qubits_from_gates(gs, nq) # {}
              THEN 1 ELSE 0,
              resolve_input_vectors(gs, nq, input_vectors).vectors,
              resolve_measurement_vectors(
                  gs, resolve_input_vectors(gs, nq, input_vectors).vectors,
                  measurement_vectors))

Approaches == {"occurrences", "types", "q-cosmic"}

\* `(approach or "occurrences").strip().lower()`
ApproachNorm(approach) == IF IsNone(approach) THEN "occurrences" ELSE Lower(Val(approach))

\* calculate_cosmic_metrics: [err, metrics]
calculate_cosmic_metrics(req) ==
    IF ApproachNorm(req.approach) \notin Approaches
    THEN [err |-> Err("ValueError", "Unsupported COSMIC approach"), metrics |-> None]
    ELSE IF ApproachNorm(req.approach) = "types"
    THEN [err |-> NoError,
          metrics |-> Some(calculate_types_metrics(req.gates, req.num_qubits,
                                                   req.input_vectors, req.measurement_vectors))]
    ELSE IF ApproachNorm(req.approach) = "q-cosmic"
    THEN [err |-> NoError,
          metrics |-> Some(calculate_q_cosmic_metrics(req.gates, req.num_qubits,
                                                      req.input_vectors,
                                                      req.measurement_vectors))]
    ELSE [err |-> NoError, metrics |-> Some(occurrences_metrics(req.gates))]

(* Metric requests *)

Reads(g, extra_reads) == [g EXCEPT !.params.reads_classical = extra_reads]
Input(vec) == [Gate("input", 0) EXCEPT !.qubit = None, !.params.qubits = vec]
Typed(g, type) == [g EXCEPT !.type = type]

\* gates with and without conditions and declared classical reads
OccurrenceGates ==
    {Gate("h", 0), Gate("z", 1), Measure(0, None), Measure(1, Some(1)),
     Cond(Gate("x", 0), CondBits(<<0>>, 1)), Cond(Gate("x", 1), CondBits(<<0, 1>>, 3)),
     Cond(Gate("x", 0), CondReg(1)), Cond(Gate("x", 0), CondInt(1)),
     Cond(Measure(1, None), CondBits(<<0>>, 1)),
     Reads(Gate("x", 0), ReadsInt(2)), Reads(Gate("x", 0), ReadsList(1)),
     Reads(Gate("x", 0), ReadsOther),
     Reads(Cond(Gate("x", 0), CondBits(<<0>>, 1)), ReadsOther)}

\* gates of every arity, among them gates that name no qubit
TypeGates ==
    {Gate("h", 0), Gate("h", 2), Measure(0, None), Typed(Measure(1, None), "Measure"),
     Cx(0, 1), Typed(Cx(1, 2), "CX"), Typed(Cx(0, 1), "cnot"), Typed(Cx(0, 2), "swap"),
     Typed(Cx(0, 1), "cz"), Typed(Cx(0, 1), "cp"), Toffoli(<<0, 1>>, <<2>>),
     Untargeted(Gate("x", 0)), Input(None), Input(Some(<<2, 0>>))}

\* grover_reference_gates of the test suite
GroverReference ==
    [k \in 1..18 |->
       At(IF k <= 6 THEN Gate("h", (k - 1) % 3)
          ELSE IF k <= 9 THEN Cond(Gate("x", (k - 7) % 3), CondBits(<<(k - 7) % 2>>, 1))
          ELSE IF k <= 12 THEN Gate("x", (k - 7) % 3)
          ELSE IF k <= 15 THEN Gate("z", (k - 1) % 3)
          ELSE Basis(Measure(k - 16, Some(k - 16)), "z"),
          Some(k - 1))]

MetricRequest(gs, approach, nq, input_vectors, measurement_vectors) ==
    [gates |-> gs, approach |-> approach, num_qubits |-> nq,
     input_vectors |-> input_vectors, measurement_vectors |-> measurement_vectors]

VectorChoices == {None, Some(<< <<0>>, <<2, 1>> >>), Some(<< <<1, 0>>, <<0, 1, 1>>, <<-1>> >>)}

InitCosmic ==
    /\ RunIdle
    /\ cout = None
    /\ \/ \E approach \in {None, Some("occurrences"), Some("cfp")}, len \in 0..MaxCosmicGates :
             \E gs \in [1..len -> OccurrenceGates] :
                cin = MetricRequest(gs, approach, None, None, None)
       \/ cin = MetricRequest(GroverReference, Some("occurrences"), Some(3), None, None)
       \/ \E approach \in {Some("types"), Some("q-cosmic")},
             nq \in {None, Some(3)}, len \in 0..MaxCosmicGates :
             \E gs \in [1..len -> TypeGates], iv \in VectorChoices,
                mv \in {None, Some(<< <<0>>, <<2, 1>> >>)} :
                cin = MetricRequest(gs, approach, nq, iv, mv)
       \/ \E nq \in {None, Some(3)}, len \in 0..MaxCosmicGates :
             \E gs \in [1..len -> TypeGates] :
                cin = MetricRequest(gs, Some("Types"), nq, None, None)

CosmicCall ==
    /\ cout = None
    /\ cout' = Some(calculate_cosmic_metrics(cin))
    /\ UNCHANGED <<num_qubits, gates, method, shots, max_qubits, per_qubit, pc, gates_sorted, gi,
                   branches, has_measurements, qc_ops, probabilities, counts, statevector,
                   warnings, error, path, prev_branches, cin>>

NextCosmic == CosmicCall

SpecCosmic == InitCosmic /\ [][NextCosmic]_vars

\* the result of a call that has returned
Returned == ~IsNone(cout) /\ IsNone(Val(cout).err)
Result == Val(Val(cout).metrics)

OccurrencesReturned == Returned /\ Result.approach = "occurrences"

\* the classical bits a condition references: its listed bits, one for a
\* condition on the whole register
ReferencedBits(condition) ==
    IF IsNone(condition.bits) THEN 1 ELSE Len(Val(condition.bits))

ConditionedReads(g) ==
    IF CarriesCondition(g) THEN ReferencedBits(g.params.condition) ELSE 0

\* the reads a gate declares in params["reads_classical"]: the number or the
\* length of the list; one for another truthy value unless the condition
\* already accounts for a read
DeclaredReads(g) ==
    CASE g.params.reads_classical.kind \in {"int", "list"} -> g.params.reads_classical.n
      [] g.params.reads_classical.kind = "other" -> IF ConditionedReads(g) = 0 THEN 1 ELSE 0
      [] OTHER -> 0

GroverTotals ==
    cin.gates = GroverReference =>
        /\ Result.entries = 18 /\ Result.exits = 18
        /\ Result.writes = 3 /\ Result.reads = 3
        /\ Result.total_cfp = 42

\* C19 (as stated): under the occurrence convention entries = exits = number of
\* gates, writes = number of gates of type measure, reads = the sum over the
\* gates carrying a condition of the classical bits it references (1 for the
\* whole register), a gate without a condition contributing 0 reads, and
\* total_cfp = entries + exits + reads + writes (18/18/3/3/42 for the Grover
\* reference list).
C19_ReadsOnlyFromConditions ==
    OccurrencesReturned =>
        /\ Result.entries = Len(cin.gates) /\ Result.exits = Len(cin.gates)
        /\ Result.writes = Len(SelectSeq(cin.gates, IsMeasure))
        /\ Result.reads = SumSeq([k \in DOMAIN cin.gates |-> ConditionedReads(cin.gates[k])])
        /\ Result.total_cfp
             = Result.entries + Result.exits + Result.reads + Result.writes
        /\ GroverTotals

\* C19 (amended): as above, except that reads also counts the classical reads
\* a gate declares in params.reads_classical, with or without a condition.
C19_OccurrenceTotals ==
    OccurrencesReturned =>
        /\ Result.entries = Len(cin.gates) /\ Result.exits = Len(cin.gates)
        /\ Result.writes = Len(SelectSeq(cin.gates, IsMeasure))
        /\ Result.reads = SumSeq([k \in DOMAIN cin.gates |->
                                    ConditionedReads(cin.gates[k]) + DeclaredReads(cin.gates[k])])
        /\ Result.total_cfp
             = Result.entries + Result.exits + Result.reads + Result.writes
        /\ GroverTotals

\* a two-bit condition, a declared read and a measurement in one returned list
C19_Witness ==
    /\ OccurrencesReturned
    /\ \E k \in DOMAIN cin.gates : ConditionedReads(cin.gates[k]) = 2
    /\ \E k \in DOMAIN cin.gates : DeclaredReads(cin.gates[k]) = 2
    /\ \E k \in DOMAIN cin.gates : IsMeasure(cin.gates[k])
    /\ Result.reads = 4 /\ Result.writes = 1 /\ Result.total_cfp = 11

C19_WitnessGrover == OccurrencesReturned /\ cin.gates = GroverReference

TypesReturned == Returned /\ Result.approach = "types"

\* the processes of a type-based result that stand for gate groups
IsGroupProcess(fp) == fp.gate_type \notin {"input", "measure"}

DistinctQubits(g) == Cardinality(gate_qubits(g))
IsCnotClass(g) == Lower(g.type) \in {"cnot", "cx", "swap"}

ReadsAsStated(g) == IF IsCnotClass(g) THEN 1 ELSE DistinctQubits(g)

ReadsOfGroup(g) ==
    IF IsCnotClass(g) THEN 1
    ELSE IF DistinctQubits(g) = 0 THEN 1 ELSE DistinctQubits(g)

\* C20 (as stated): under the type-based convention every functional process
\* of a gate group has entries = 1 and exits = 0, reads = writes = 1 when the
\* gate type is cnot, cx or swap, and reads = writes = the number of distinct
\* qubits the gate acts on for every other type (cz, cp, toffoli, ...).
C20_ReadsWritesAreDistinctQubits ==
    TypesReturned =>
        /\ \A k \in DOMAIN Result.functional_processes :
              IsGroupProcess(Result.functional_processes[k]) =>
                 /\ Result.functional_processes[k].entries = 1
                 /\ Result.functional_processes[k].exits = 0
                 /\ \E j \in DOMAIN cin.gates :
                       /\ IsGrouped(cin.gates[j])
                       /\ Lower(cin.gates[j].type) = Result.functional_processes[k].gate_type
                       /\ Result.functional_processes[k].reads = ReadsAsStated(cin.gates[j])
                       /\ Result.functional_processes[k].writes = ReadsAsStated(cin.gates[j])
        /\ \A j \in DOMAIN cin.gates :
              IsGrouped(cin.gates[j]) =>
                 \E k \in DOMAIN Result.functional_processes :
                    /\ IsGroupProcess(Result.functional_processes[k])
                    /\ Result.functional_processes[k].gate_type = Lower(cin.gates[j].type)
                    /\ Result.functional_processes[k].reads = ReadsAsStated(cin.gates[j])
                    /\ Result.functional_processes[k].writes = ReadsAsStated(cin.gates[j])

\* C20 (amended): as above, with the arity of a gate that names no qubit taken
\* as 1, so that its process has reads = writes = 1.
C20_TypeReadsWrites ==
    TypesReturned =>
        /\ \A k \in DOMAIN Result.functional_processes :
              IsGroupProcess(Result.functional_processes[k]) =>
                 /\ Result.functional_processes[k].entries = 1
                 /\ Result.functional_processes[k].exits = 0
                 /\ \E j \in DOMAIN cin.gates :
                       /\ IsGrouped(cin.gates[j])
                       /\ Lower(cin.gates[j].type) = Result.functional_processes[k].gate_type
                       /\ Result.functional_processes[k].reads = ReadsOfGroup(cin.gates[j])
                       /\ Result.functional_processes[k].writes = ReadsOfGroup(cin.gates[j])
        /\ \A j \in DOMAIN cin.gates :
              IsGrouped(cin.gates[j]) =>
                 \E k \in DOMAIN Result.functional_processes :
                    /\ IsGroupProcess(Result.functional_processes[k])
                    /\ Result.functional_processes[k].gate_type = Lower(cin.gates[j].type)
                    /\ Result.functional_processes[k].reads = ReadsOfGroup(cin.gates[j])
                    /\ Result.functional_processes[k].writes = ReadsOfGroup(cin.gates[j])

ProcessOf(gate_type, reads) ==
    \E k \in DOMAIN Result.functional_processes :
       /\ Result.functional_processes[k].gate_type = gate_type
       /\ Result.functional_processes[k].reads = reads
       /\ Result.functional_processes[k].writes = reads

\* a cx, a cz and a toffoli in one list: processes of 1, 2 and 3 reads
C20_Witness ==
    TypesReturned /\ ProcessOf("cx", 1) /\ ProcessOf("cz", 2) /\ ProcessOf("toffoli", 3)

\* a gate that names no qubit, and its process of one read
C20_WitnessNoQubit ==
    /\ TypesReturned
    /\ \E j \in DOMAIN cin.gates : IsGrouped(cin.gates[j]) /\ DistinctQubits(cin.gates[j]) = 0
    /\ ProcessOf("x", 1)

Processes == Result.functional_processes

ArityOf(g) == IF DistinctQubits(g) = 0 THEN 1 ELSE DistinctQubits(g)

\* the (gate type, arity) pairs of the gates that are neither input nor measure
TypeArityPairs ==
    {<<Lower(cin.gates[j].type), ArityOf(cin.gates[j])>> :
        j \in {i \in DOMAIN cin.gates : IsGrouped(cin.gates[i])}}

\* the processes of the result that carry a (gate type, arity) pair
ProcessesOf(pair) ==
    {k \in DOMAIN Processes :
        /\ IsGroupProcess(Processes[k])
        /\ Processes[k].gate_type = pair[1]
        /\ Processes[k].name[3] = pair[2]}

ProcessesOfType(gate_type) == {k \in DOMAIN Processes : Processes[k].gate_type = gate_type}

EveryGroupProcessHasItsPair ==
    \A k \in DOMAIN Processes :
       IsGroupProcess(Processes[k]) =>
          <<Processes[k].gate_type, Processes[k].name[3]>> \in TypeArityPairs

HasNonNegative(vec) == \E q \in Range(vec) : q >= 0

\* the input vectors in force: the declared ones, else those of the input
\* gates, else the one inferred from num_qubits or the gates
VectorsInForce == resolve_input_vectors(cin.gates, cin.num_qubits, cin.input_vectors).vectors

\* the input vectors a gate touches (-1: a qubit of no vector, or no qubit)
VectorsTouched(g) ==
    IF gate_qubits(g) = {} THEN {-1}
    ELSE {VectorIndex(VectorsInForce, q) : q \in gate_qubits(g)}

\* some input exists: a declared vector with a qubit, else an input gate that
\* is a placeholder or names a qubit, else any qubit of the circuit
SomeInput ==
    IF ~IsNone(cin.input_vectors)
    THEN \E k \in DOMAIN Val(cin.input_vectors) : HasNonNegative(Val(cin.input_vectors)[k])
    ELSE \/ \E j \in DOMAIN cin.gates :
               /\ IsInput(cin.gates[j])
               /\ (IsPlaceholder(cin.gates[j]) \/ HasNonNegative(DeclaredVector(cin.gates[j])))
         \/ (~IsNone(cin.num_qubits) /\ Val(cin.num_qubits) > 0)
         \/ \E j \in DOMAIN cin.gates : gate_qubits(cin.gates[j]) # {}

\* some measurement exists: a declared measurement vector with a qubit, else
\* a measure gate
SomeMeasurement ==
    IF ~IsNone(cin.measurement_vectors)
    THEN \E k \in DOMAIN Val(cin.measurement_vectors) :
            HasNonNegative(Val(cin.measurement_vectors)[k])
    ELSE \E j \in DOMAIN cin.gates : IsMeasureType(cin.gates[j])

\* C21 (as stated): under the type-based convention the result holds exactly
\* one functional process for each distinct (gate type, arity) pair among the
\* non-measurement, non-input gates, whichever qubits or input vectors the
\* gates act on, plus one input process and, if any measurement exists, one
\* measurement process.
C21_OneProcessPerTypeAndArity ==
    TypesReturned =>
        /\ \A pair \in TypeArityPairs : Cardinality(ProcessesOf(pair)) = 1
        /\ EveryGroupProcessHasItsPair
        /\ Cardinality(ProcessesOfType("input")) = 1
        /\ Cardinality(ProcessesOfType("measure"))
             = IF \E j \in DOMAIN cin.gates : IsMeasureType(cin.gates[j]) THEN 1 ELSE 0

\* C21 (amended): the result holds, for each (gate type, arity) pair, one
\* functional process per distinct set of input vectors that the gates of the
\* pair touch; plus one input process if some input exists and one
\* measurement process if some measurement exists (declared vectors taking
\* precedence over the gates).
C21_OneProcessPerTypeArityAndVectors ==
    TypesReturned =>
        /\ \A pair \in TypeArityPairs :
              Cardinality(ProcessesOf(pair))
                = Cardinality({VectorsTouched(cin.gates[j]) :
                                 j \in {i \in DOMAIN cin.gates :
                                          /\ IsGrouped(cin.gates[i])
                                          /\ Lower(cin.gates[i].type) = pair[1]
                                          /\ ArityOf(cin.gates[i]) = pair[2]}})
        /\ EveryGroupProcessHasItsPair
        /\ Cardinality(ProcessesOfType("input")) = IF SomeInput THEN 1 ELSE 0
        /\ Cardinality(ProcessesOfType("measure")) = IF SomeMeasurement THEN 1 ELSE 0

\* two h gates on qubits of different input vectors: two processes h:1
C21_Witness ==
    /\ TypesReturned
    /\ Cardinality(ProcessesOf(<<"h", 1>>)) = 2
    /\ Cardinality(ProcessesOfType("input")) = 1
    /\ Cardinality(ProcessesOfType("measure")) = 1

QCosmicReturned == Returned /\ Result.approach = "q-cosmic"

\* the distinct non-empty qubit sets among a list of vectors
DistinctVectors(vectors) ==
    {{q \in Range(vectors[k]) : q >= 0} : k \in DOMAIN vectors} \ {{}}

InputGateVectors ==
    [k \in DOMAIN SelectSeq(SelectSeq(cin.gates, IsInput), DeclaresVector) |->
       DeclaredVector(SelectSeq(SelectSeq(cin.gates, IsInput), DeclaresVector)[k])]

AnyQubitNamed == \E j \in DOMAIN cin.gates : gate_qubits(cin.gates[j]) # {}

\* the number of distinct input vectors: declared, else given by input gates,
\* else the one vector of all qubits
DistinctInputVectors ==
    IF ~IsNone(cin.input_vectors) THEN Cardinality(DistinctVectors(Val(cin.input_vectors)))
    ELSE IF DistinctVectors(InputGateVectors) # {}
            \/ \E j \in DOMAIN cin.gates : IsInput(cin.gates[j]) /\ IsPlaceholder(cin.gates[j])
    THEN Cardinality(DistinctVectors(InputGateVectors))
    ELSE IF (~IsNone(cin.num_qubits) /\ Val(cin.num_qubits) > 0) \/ AnyQubitNamed
    THEN 1 ELSE 0

\* the number of distinct measurement vectors: declared, else none without a
\* measure gate, else the input vectors (one vector when there is none)
DistinctMeasurementVectors ==
    IF ~IsNone(cin.measurement_vectors)
    THEN Cardinality(DistinctVectors(Val(cin.measurement_vectors)))
    ELSE IF ~\E j \in DOMAIN cin.gates : IsMeasureType(cin.gates[j]) THEN 0
    ELSE IF DistinctInputVectors > 0 THEN DistinctInputVectors ELSE 1

QubitPresent == (~IsNone(cin.num_qubits) /\ Val(cin.num_qubits) # 0) \/ AnyQubitNamed

\* C22: under the q-cosmic convention the result has a single functional
\* process with entries = number of distinct input vectors, exits = number of
\* distinct measurement vectors (0 when the list has no measurement and none
\* is declared), reads = writes = 0, q_entries = q_exits = 1 whenever any qubit
\* is present (0 otherwise), and total_cfp = entries + exits + q_entries + q_exits.
C22_QCosmicTotals ==
    QCosmicReturned =>
        /\ Len(Processes) = 1
        /\ Result.entries = DistinctInputVectors
        /\ Result.exits = DistinctMeasurementVectors
        /\ Result.reads = 0 /\ Result.writes = 0
        /\ Result.q_entries = (IF QubitPresent THEN 1 ELSE 0)
        /\ Result.q_exits = Result.q_entries
        /\ Result.total_cfp
             = Result.entries + Result.exits + Result.q_entries + Result.q_exits
        /\ Processes[1].entries = Result.entries /\ Processes[1].exits = Result.exits
        /\ Processes[1].reads = 0 /\ Processes[1].writes = 0
        /\ Processes[1].q_entries = Result.q_entries
        /\ Processes[1].q_exits = Result.q_exits
        /\ Processes[1].cfp = Result.total_cfp

\* declared input vectors that name the same qubits twice, two declared
\* measurement vectors, qubits present
C22_Witness ==
    /\ QCosmicReturned
    /\ ~IsNone(cin.input_vectors) /\ Len(Val(cin.input_vectors)) = 3
    /\ ~IsNone(cin.measurement_vectors)
    /\ Result.entries = 1 /\ Result.exits = 2 /\ Result.q_entries = 1
    /\ Result.total_cfp = 5

\* no measurement, none declared, no qubit anywhere
C22_WitnessNoQubit ==
    /\ QCosmicReturned
    /\ IsNone(cin.measurement_vectors) /\ ~QubitPresent
    /\ Result.exits = 0 /\ Result.q_entries = 0

-----------------------------------------------------------------------------
(* Hardware metrics (hardware_metrics.py) *)

\* hardware_metrics._gate_qubit_count: the distinct qubits, none included
hardware_gate_qubit_count(gate) == Cardinality(gate_qubits(gate))

HasPosition(g) == ~IsNone(g.position)
IsT(g) == g.type = "t"
IsCnot(g) == g.type \in {"cnot", "cx"}
\* the classes of the non-measurement gates
IsSingleQubit(g) == ~IsMeasure(g) /\ hardware_gate_qubit_count(g) <= 1
IsTwoQubit(g) == ~IsMeasure(g) /\ hardware_gate_qubit_count(g) = 2
IsMultiQubit(g) == ~IsMeasure(g) /\ hardware_gate_qubit_count(g) > 2
IsEntangling(g) == IsTwoQubit(g) \/ IsMultiQubit(g)

PositionsOf(gs) == {Val(gs[k].position) : k \in {i \in DOMAIN gs : HasPosition(gs[i])}}

\* max_position: -1 unless some position reaches 0
max_position(gs) ==
    IF \E p \in PositionsOf(gs) : p >= 0
    THEN CHOOSE p \in PositionsOf(gs) : \A r \in PositionsOf(gs) : r <= p
    ELSE -1

circuit_depth_NoPlusOne(gs) == IF max_position(gs) >= 0 THEN max_position(gs) ELSE 0

circuit_depth(gs) == IF max_position(gs) >= 0 THEN max_position(gs) + 1 ELSE 0

qv_qubits(nq, depth) ==
    IF nq # 0 /\ depth # 0 THEN (IF nq <= depth THEN nq ELSE depth) ELSE 0

quantum_volume(nq, depth) ==
    IF qv_qubits(nq, depth) > 0 THEN 2 ^ qv_qubits(nq, depth) ELSE 0

entanglement_ratio_OverAllGates(gs) ==
    Rat(Len(SelectSeq(gs, IsEntangling)), IF Len(gs) >= 1 THEN Len(gs) ELSE 1)

entanglement_ratio(gs) ==
    Rat(Len(SelectSeq(gs, IsEntangling)),
        IF Len(SelectSeq(gs, IsSingleQubit)) + Len(SelectSeq(gs, IsEntangling)) >= 1
        THEN Len(SelectSeq(gs, IsSingleQubit)) + Len(SelectSeq(gs, IsEntangling))
        ELSE 1)

\* calculate_hardware_metrics
calculate_hardware_metrics(nq, gs) ==
    [circuit_depth |-> circuit_depth(gs),
     circuit_width |-> nq,
     gate_count |-> [t \in {gs[k].type : k \in DOMAIN gs} |->
                       Cardinality({k \in DOMAIN gs : gs[k].type = t})],
     t_count |-> Len(SelectSeq(gs, IsT)),
     t_depth |-> Cardinality(PositionsOf(SelectSeq(gs, IsT))),
     cnot_count |-> Len(SelectSeq(gs, IsCnot)),
     single_qubit_gates |-> Len(SelectSeq(gs, IsSingleQubit)),
     two_qubit_gates |-> Len(SelectSeq(gs, IsTwoQubit)),
     multi_qubit_gates |-> Len(SelectSeq(gs, IsMultiQubit)),
     measurement_count |-> Len(SelectSeq(gs, IsMeasure)),
     entanglement_ratio |-> entanglement_ratio(gs),
     entanglement_depth |-> Cardinality(PositionsOf(SelectSeq(gs, IsEntangling))),
     quantum_volume |-> quantum_volume(nq, circuit_depth(gs)),
     estimated_fidelity |-> None]

\* gates of every class, with and without a position
HardwareGates ==
    {At(g, p) : g \in {Gate("h", 0), Gate("t", 1), Typed(Cx(0, 1), "cnot"),
                       Toffoli(<<0, 1>>, <<2>>), Measure(0, None),
                       Untargeted(Gate("x", 0))},
                p \in {None, Some(0), Some(2)}}

\* the gate list of test_hardware_metrics_basic
HardwareReference ==
    <<At(Gate("h", 0), Some(0)), At(Typed(Cx(0, 1), "cnot"), Some(1)),
      At(Gate("t", 1), Some(2)), At(Measure(0, None), Some(3))>>

InitHardware ==
    /\ RunIdle
    /\ cout = None
    /\ \/ \E nq \in 0..MaxQubits, len \in 0..MaxGates :
             \E gs \in [1..len -> HardwareGates] : cin = [num_qubits |-> nq, gates |-> gs]
       \/ cin = [num_qubits |-> 2, gates |-> HardwareReference]

HardwareCall ==
    /\ cout = None
    /\ cout' = Some(calculate_hardware_metrics(cin.num_qubits, cin.gates))
    /\ UNCHANGED <<num_qubits, gates, method, shots, max_qubits, per_qubit, pc, gates_sorted, gi,
                   branches, has_measurements, qc_ops, probabilities, counts, statevector,
                   warnings, error, path, prev_branches, cin>>

NextHardware == HardwareCall

SpecHardware == InitHardware /\ [][NextHardware]_vars

HardwareReturned == ~IsNone(cout)
Hardware == Val(cout)

\* the non-measurement gates of the request with lo..hi distinct qubits
\* (hi = -1: no upper limit)
GatesOfArity(lo, hi) ==
    {k \in DOMAIN cin.gates :
        /\ ~IsMeasure(cin.gates[k])
        /\ DistinctQubits(cin.gates[k]) >= lo
        /\ (hi = -1 \/ DistinctQubits(cin.gates[k]) <= hi)}

NonMeasurementCount == Cardinality({k \in DOMAIN cin.gates : ~IsMeasure(cin.gates[k])})

\* C23: single_qubit_gates + two_qubit_gates + multi_qubit_gates is the number
\* of non-measurement gates, each classified by its number of distinct qubits
\* (at most 1, exactly 2, 3 or more); measurement gates are counted only in
\* measurement_count; entanglement_ratio = (two_qubit_gates + multi_qubit_gates)
\* / max(number of non-measurement gates, 1), which lies in [0, 1].
C23_ArityClassesAndRatio ==
    HardwareReturned =>
        /\ Hardware.single_qubit_gates + Hardware.two_qubit_gates + Hardware.multi_qubit_gates
             = NonMeasurementCount
        /\ Hardware.single_qubit_gates = Cardinality(GatesOfArity(0, 1))
        /\ Hardware.two_qubit_gates = Cardinality(GatesOfArity(2, 2))
        /\ Hardware.multi_qubit_gates = Cardinality(GatesOfArity(3, -1))
        /\ Hardware.measurement_count
             = Cardinality({k \in DOMAIN cin.gates : IsMeasure(cin.gates[k])})
        /\ Hardware.entanglement_ratio
             = Rat(Hardware.two_qubit_gates + Hardware.multi_qubit_gates,
                   IF NonMeasurementCount >= 1 THEN NonMeasurementCount ELSE 1)
        /\ RLe(RZero, Hardware.entanglement_ratio) /\ RLe(Hardware.entanglement_ratio, ROne)
        /\ cin.gates = HardwareReference =>
              /\ Hardware.single_qubit_gates = 2 /\ Hardware.two_qubit_gates = 1
              /\ Hardware.multi_qubit_gates = 0 /\ Hardware.measurement_count = 1
              /\ Hardware.entanglement_ratio = Rat(1, 3)

\* a list with a measurement, a two-qubit and a three-qubit gate: ratio 1
C23_Witness ==
    /\ HardwareReturned
    /\ Hardware.measurement_count = 1 /\ Hardware.two_qubit_gates = 1
    /\ Hardware.multi_qubit_gates = 1 /\ Hardware.single_qubit_gates = 0
    /\ Hardware.entanglement_ratio = ROne

C23_WitnessReference == HardwareReturned /\ cin.gates = HardwareReference

MaxPositionOrNone ==
    IF \E k \in DOMAIN cin.gates : HasPosition(cin.gates[k])
    THEN Some(CHOOSE p \in PositionsOf(cin.gates) : \A r \in PositionsOf(cin.gates) : r <= p)
    ELSE None

DepthAsStated ==
    Hardware.circuit_depth = (IF IsNone(MaxPositionOrNone) THEN 0 ELSE Val(MaxPositionOrNone) + 1)

MinOf(a, b) == IF a <= b THEN a ELSE b

C24_WitnessNoDepth ==
    /\ HardwareReturned /\ cin.num_qubits >= 1 /\ cin.gates # <<>>
    /\ Hardware.circuit_depth = 0 /\ Hardware.quantum_volume = 0

-----------------------------------------------------------------------------
(* Analytic counts (_probabilities_to_counts), continued *)

CountsReturned == cout # None /\ cin.shots >= 1 /\ RPos(RTotalOf(cin.probs))

\* the count a call reports for a bitstring: 0 for one it leaves out
CountOf(k) == IF k \in DOMAIN Val(cout) THEN Val(cout)[k] ELSE 0

\* shots x probability, the probability taken of the normalised distribution
Expected(k) == RMul(RDiv(cin.probs[k], RTotalOf(cin.probs)), Rat(cin.shots, 1))

\* C30: for every outcome distribution and shots >= 1 the count of each
\* bitstring differs from shots x probability by less than 1 (it is the floor
\* or the floor plus one), a bitstring of strictly larger probability never
\* gets a smaller count, and bitstrings of count 0 are left out, so every
\* listed count is >= 1.
C30_CountsNearExpectation ==
    CountsReturned =>
        /\ \A k \in DOMAIN cin.probs :
              /\ CountOf(k) \in {IntOf(Expected(k)), IntOf(Expected(k)) + 1}
              /\ RLt(Rat(CountOf(k) - 1, 1), Expected(k))
              /\ RLt(Expected(k), Rat(CountOf(k) + 1, 1))
        /\ \A j, k \in DOMAIN cin.probs :
              RLt(cin.probs[k], cin.probs[j]) => CountOf(j) >= CountOf(k)
        /\ DOMAIN Val(cout) \subseteq DOMAIN cin.probs
        /\ \A k \in DOMAIN Val(cout) : Val(cout)[k] >= 1

\* one call in which a count is the floor plus one, another is the floor, and
\* a bitstring of positive probability is left out with count 0
C30_Witness ==
    /\ CountsReturned
    /\ \E k \in DOMAIN cin.probs : CountOf(k) = IntOf(Expected(k)) + 1
    /\ \E k \in DOMAIN cin.probs : CountOf(k) = IntOf(Expected(k)) /\ CountOf(k) >= 1
    /\ \E k \in DOMAIN cin.probs : RPos(cin.probs[k]) /\ k \notin DOMAIN Val(cout)

-----------------------------------------------------------------------------
(* Branching execution, continued *)

InBranching == path = "branching" /\ pc \in {"branch", "done"}

\* the measurement gates processed so far
MeasuredSoFar == Len(SelectSeq(SubSeq(gates_sorted, 1, gi - 1), IsMeasure))

\* next holds, in order, one or two children of every branch of prev: one
\* child of the whole mass, or two children of positive mass that share it
RECURSIVE SplitsInto(_, _)
SplitsInto(prev, next) ==
    IF prev = <<>> THEN next = <<>>
    ELSE \/ /\ Len(next) >= 1
            /\ next[1].w = prev[1].w
            /\ SplitsInto(Tail(prev), Tail(next))
         \/ /\ Len(next) >= 2
            /\ RPos(next[1].w) /\ RPos(next[2].w)
            /\ RAdd(next[1].w, next[2].w) = prev[1].w
            /\ next[1].cl # next[2].cl
            /\ SplitsInto(Tail(prev), Tail(Tail(next)))

\* C28: in branching exact execution a measurement replaces every live branch
\* by one child per outcome of non-zero probability (one or two, never one of
\* mass 0), a non-measurement gate leaves the number of branches unchanged;
\* every live branch has mass > 0, the branch set is non-empty and holds at
\* most 2^m branches, m the number of measurement gates processed so far.
C28_BranchesStayLive ==
    /\ InBranching =>
          /\ branches # <<>>
          /\ \A k \in DOMAIN branches : RPos(branches[k].w)
          /\ Len(branches) <= 2 ^ MeasuredSoFar
    /\ (AfterBranchStep /\ IsMeasure(LastGate)) => SplitsInto(prev_branches, branches)
    /\ (AfterBranchStep /\ ~IsMeasure(LastGate)) => Len(branches) = Len(prev_branches)

\* a second measurement that splits no branch: two branches after two
\* measurements, each the only child of its parent
C28_Witness ==
    /\ AfterBranchStep /\ IsMeasure(LastGate)
    /\ MeasuredSoFar = 2
    /\ Len(prev_branches) = 2 /\ Len(branches) = 2

\* a measurement that splits its branch in two
C28_WitnessSplit ==
    /\ AfterBranchStep /\ IsMeasure(LastGate)
    /\ Len(prev_branches) = 1 /\ Len(branches) = 2

\* the branching procedure run over a whole gate list (no gate of it raising)
RECURSIVE BranchAll(_, _, _)
BranchAll(bs, gs, n) ==
    IF gs = <<>> THEN bs
    ELSE BranchAll(BranchingGate(bs, Head(gs), n).out, Tail(gs), n)

\* the outcomes of non-zero probability of a distribution
Support(probs) == [k \in {j \in DOMAIN probs : RPos(probs[j])} |-> probs[k]]

ConditionFree(gs) == \A k \in DOMAIN gs : ~CarriesCondition(gs[k])

\* every measurement gate comes after every non-measurement gate
MeasurementsTrail(gs) ==
    \A j, k \in DOMAIN gs : (IsMeasure(gs[j]) /\ ~IsMeasure(gs[k])) => k < j

\* C26: for every condition-free gate list whose measurements all come after
\* its non-measurement gates, the distribution the fast path returns (only the
\* basis rotation of each trailing measurement applied) equals the distribution
\* the branching procedure computes for the same list, also when the list
\* measures the same qubit more than once.  Measurements with reset_after,
\* which the fast path does not reset (C5), are set aside here.
C26_FastPathAgreesWithBranching ==
    (pc = "done" /\ path = "fast" /\ ConditionFree(gates_sorted)
        /\ MeasurementsTrail(gates_sorted)
        /\ \A k \in DOMAIN gates_sorted : ~IsResetMeasure(gates_sorted[k]))
      => Support(probabilities)
           = BranchProbabilities(BranchAll(InitialBranches(num_qubits), gates_sorted,
                                           num_qubits), num_qubits)

-----------------------------------------------------------------------------
(* Exact against sampled execution *)

\* the counts key of the shot: classical bit n-1 first, bit 0 last
ShotKey == Format(RegValue(branches[1].cl), num_qubits)

\* the distribution the statevector method returns for a sorted gate list
ExactDistribution(gs, n) ==
    IF UseFastPath(gs)
    THEN Support(StateProbabilities(Evolve(ZeroState(n), FastPathCircuit(gs, n).ops), n))
    ELSE BranchProbabilities(BranchAll(InitialBranches(n), gs, n), n)

IsClassicalGate(g) ==
    /\ g.type \in {"x", "cx", "cnot", "swap", "toffoli", "ccx"}
    /\ ~CarriesCondition(g)

\* a Z-basis measurement of a qubit into the classical bit of its own index
IsOwnBitMeasure(g) ==
    /\ IsMeasure(g) /\ ~CarriesCondition(g) /\ ~g.params.reset_after
    /\ normalize_basis(g.params.basis) = "z"
    /\ IsNone(g.params.cbit) /\ IsNone(g.params.classical_bit)

TwoBitConditions(n) ==
    {Gate("x", 0), Gate("x", n - 1), Measure(0, None), Measure(n - 1, None),
     Cond(Gate("x", n - 1), CondBits(<<1, 0>>, 2)),
     Cond(Gate("x", 0), CondBits(<<1, 0>>, 1)),
     Cond(Gate("x", 0), CondBits(<<0, 1>>, 1)),
     Cond(Gate("x", n - 1), CondBits(<<0, 1>>, 3))}

InitSubset ==
    /\ \E n \in 2..MaxQubits, m \in Methods, len \in 0..MaxGates :
          \E gs \in [1..len -> TwoBitConditions(n)] : Fresh(Request(n, Columns(gs), m))
    /\ CountsIdle

SpecSubset == InitSubset /\ [][Next]_vars

ListsSeveralBits(g) ==
    /\ g.params.condition.kind = "dict"
    /\ ~IsNone(g.params.condition.bits)
    /\ Len(Val(g.params.condition.bits)) >= 2

\* a shot has just run the instruction of the gate LastGate
AfterShotStep ==
    /\ path = "sampled" /\ pc = "run" /\ gi > 1 /\ gi - 1 <= Len(gates_sorted)
    /\ Len(qc_ops) >= Len(gates_sorted)
    /\ qc_ops[gi - 1].name = LastGate.type

\* C27: in sampled execution a gate whose condition lists two or more
\* classical bits is applied in a shot if and only if the condition value
\* equals those bits packed LSB-first in list order, as branching exact
\* execution decides it.
C27_SampledDecidesSubsetsAsBranching ==
    (AfterShotStep /\ LastGate.type = "x" /\ ListsSeveralBits(LastGate))
      => ((branches[1].st # prev_branches[1].st)
            <=> ConditionHolds(LastGate.params.condition, prev_branches[1].cl))

-----------------------------------------------------------------------------
(* run_circuit: the gate list under a measurement_config *)

\* a measurement_config; qubits and classical_bits may be absent
Config(basis, qubits, classical_bits, reset_after) ==
    [basis |-> basis, qubits |-> qubits, classical_bits |-> classical_bits,
     reset_after |-> reset_after]

\* `if not qubits: qubits = list(range(num_qubits))`
config_qubits(config, n) ==
    IF IsNone(config.qubits) \/ Val(config.qubits) = <<>>
    THEN [k \in 1..n |-> k - 1]
    ELSE Val(config.qubits)

\* `if classical_bits is None or len(classical_bits) != len(qubits)`
config_classical_bits(config, n) ==
    IF IsNone(config.classical_bits)
         \/ Len(Val(config.classical_bits)) # Len(config_qubits(config, n))
    THEN config_qubits(config, n)
    ELSE Val(config.classical_bits)

\* max of the int positions of the kept gates, -1 when there is none
config_max_position(gates_filtered) ==
    MaxOf({Val(gates_filtered[k].position) :
             k \in {j \in DOMAIN gates_filtered : ~IsNone(gates_filtered[j].position)}}, -1)

measurement_gates(config, n, first_position) ==
    [idx \in DOMAIN config_qubits(config, n) |->
        [type |-> "measure", qubit |-> Some(config_qubits(config, n)[idx]),
         targets |-> <<>>, controls |-> <<>>,
         position |-> Some(first_position + (idx - 1)),
         params |-> [DefaultParams EXCEPT
                        !.basis = Some(normalize_basis(config.basis)),
                        !.cbit = Some(config_classical_bits(config, n)[idx]),
                        !.reset_after = config.reset_after]]]

\* gates_sorted as run_circuit executes it
executed_gates(gs, n, measurement_config) ==
    IF IsNone(measurement_config)
    THEN SortGates(gs)
    ELSE NonMeasureGates(SortGates(gs))
           \o measurement_gates(Val(measurement_config), n,
                                config_max_position(NonMeasureGates(SortGates(gs))) + 1)

ConfigGates ==
    {At(g, p) : g \in {Gate("x", 0), Measure(0, None)}, p \in {None, Some(0), Some(2)}}

ConfigChoices(n) ==
    {Config(b[1], qs, cbs, b[2]) :
        b \in {<<Some("z"), FALSE>>, <<Some("x"), TRUE>>},
        qs \in {None, Some(<<>>), Some(<<0>>), Some(<<n - 1>>), Some(<<n - 1, 0>>)},
        cbs \in {None, Some(<<0>>), Some(<<n - 1>>), Some(<<0, n - 1>>)}}

InitConfig ==
    /\ RunIdle
    /\ cout = None
    /\ \E n \in 1..MaxQubits, len \in 0..MaxGates :
          \E gs \in [1..len -> ConfigGates], c \in {None} \cup {Some(x) : x \in ConfigChoices(n)} :
             cin = [num_qubits |-> n, gates |-> gs, measurement_config |-> c]

ConfigCall ==
    /\ cout = None
    /\ cout' = Some(executed_gates(cin.gates, cin.num_qubits, cin.measurement_config))
    /\ UNCHANGED <<num_qubits, gates, method, shots, max_qubits, per_qubit, pc, gates_sorted, gi,
                   branches, has_measurements, qc_ops, probabilities, counts, statevector,
                   warnings, error, path, prev_branches, cin>>

NextConfig == ConfigCall

SpecConfig == InitConfig /\ [][NextConfig]_vars

ConfigReturned == ~IsNone(cout) /\ ~IsNone(cin.measurement_config)
Executed == Val(cout)
Kept == NonMeasureGates(SortGates(cin.gates))

\* the configured qubits: all qubits when none are listed
ListedQubits ==
    IF IsNone(Val(cin.measurement_config).qubits) \/ Val(Val(cin.measurement_config).qubits) = <<>>
    THEN [k \in 1..cin.num_qubits |-> k - 1]
    ELSE Val(Val(cin.measurement_config).qubits)

\* the classical bit paired with the i-th configured qubit
PairedBit(i) ==
    IF ~IsNone(Val(cin.measurement_config).classical_bits)
         /\ Len(Val(Val(cin.measurement_config).classical_bits)) = Len(ListedQubits)
    THEN Val(Val(cin.measurement_config).classical_bits)[i]
    ELSE ListedQubits[i]

\* the i-th gate behind the kept gates is the measurement of the i-th
\* configured qubit, placed behind every kept gate
MeasuresListed(i) ==
    /\ IsMeasure(Executed[Len(Kept) + i])
    /\ Executed[Len(Kept) + i].qubit = Some(ListedQubits[i])
    /\ \A k \in DOMAIN Kept :
          ~IsNone(Kept[k].position)
             => Val(Executed[Len(Kept) + i].position) > Val(Kept[k].position)

\* the classical bit the i-th configured measurement writes when it is executed
WrittenBit(i) == measurement_target_and_cbit(Executed[Len(Kept) + i], cin.num_qubits).cbit

\* C29: under a measurement_config the executed gate list is the request's
\* non-measurement gates in sorted order followed by one measurement per
\* configured qubit (all qubits when none are listed) in the listed order,
\* each at a position above every non-measurement gate's position and writing
\* to the paired classical bit (the qubit's own index when classical_bits is
\* absent or of another length); the request's own measurements are dropped,
\* so no measurement precedes a non-measurement gate.
C29_ConfiguredMeasurementsTrail ==
    ConfigReturned =>
        /\ Len(Executed) = Len(Kept) + Len(ListedQubits)
        /\ SubSeq(Executed, 1, Len(Kept)) = Kept
        /\ \A i \in DOMAIN ListedQubits : MeasuresListed(i) /\ WrittenBit(i) = PairedBit(i)
        /\ \A k, j \in DOMAIN Executed :
              (IsMeasure(Executed[k]) /\ ~IsMeasure(Executed[j])) => k > j

=============================================================================
